---- MODULE Spec2Model ----
(***************************************************************************)
(* A model of the classification layer of the sequentia toolkit:           *)
(*   HMMClassifier (classifiers/hmm/hmm_classifier.py) and                 *)
(*   DTWKNN        (classifiers/dtwknn/dtwknn.py).                         *)
(*                                                                         *)
(* Conventions.                                                            *)
(*  - An observation sequence is written as a number x >= 1: it stands for *)
(*    the univariate sequence of x frames that all hold the value x.       *)
(*  - A label of the HMM ensemble is a number; numpy's sort order of the   *)
(*    labels is the order of the numbers.                                  *)
(*  - A label of the k-NN classifier is a string, written as the sequence  *)
(*    of its character codes (97 = 'a', 98 = 'b', 0 = NUL).                *)
(*  - Probabilities are exact rationals [num, den].  A score of the        *)
(*    ensemble, log P(O|model) + log prior, is kept as the rational        *)
(*    P(O|model) * prior it is the logarithm of; log is strictly           *)
(*    increasing, so argmax and equality of scores are those of the code   *)
(*    (log 0 = -inf is the rational 0).                                    *)
(*  - Python sequences are 0-based, TLA+ sequences 1-based: position p of  *)
(*    the model is index p-1 of the code.  Indices the code returns        *)
(*    (argmax, encoder indices) are kept 0-based.                          *)
(*  - ret holds the outcome of the last call: every call overwrites it,    *)
(*    so while ret shows a call, the classifier is as that call left it.   *)
(*  - A record constructor lists its fields in the order TLC keeps them    *)
(*    in (the order in which the names first occur in the module), so      *)
(*    that TLC's workers never reorder a record another worker reads.      *)
(***************************************************************************)
EXTENDS Integers, Sequences, FiniteSets, TLC

VARIABLES
    attrs,      \* HMMClassifier: names of the instance attributes that are set
    models_,    \* HMMClassifier._models_
    encoder_,   \* HMMClassifier._encoder_.classes_
    ret,        \* outcome of the last call, once it has returned
    job,        \* the batch predict that is running on worker processes
    slots,      \* per chunk of the running job: its result, once the worker is done
    order,      \* chunk indices of the running job, in order of completion
    knnAttrs,   \* DTWKNN: names of the instance attributes that are set
    k_,         \* DTWKNN._k
    radius_,    \* DTWKNN._radius
    X_,         \* DTWKNN._X
    y_,         \* DTWKNN._y
    pkl,        \* the file HMMClassifier.save writes
    deserialized, \* the instance HMMClassifier.load returned
    h5,         \* the file DTWKNN.save writes
    clf,        \* the instance DTWKNN.load returned
    topology,   \* the topology object constructed last: its name and n_states
    hmm         \* one HMM variant instance: its hmmlearn_kwargs and frozen sets

\* ------------------------------------------------------------------ bounds

\* Longest collection of models handed to HMMClassifier.fit.
MaxModels == 2

\* Longest batch of observation sequences handed to predict / evaluate.
MaxBatch == 2

\* Largest k and radius a DTWKNN is constructed with.
MaxK == 3

MaxRadius == 1

\* Largest number of reference sequences DTWKNN.fit is given.
MaxRefs == 3

\* Explicit class priors are multiples of 1 / PriorDen.
PriorDen == 2

\* Longest batch handed to a predict that runs on worker processes, and the
\* largest n_jobs asked for.
MaxParBatch == 3

MaxJobs == 3

MaxSaved == 11

MaxVoters == 4

\* Largest n_states of a topology.
MaxStates == 3

\* Resolution of a Dirichlet sample: its components are multiples of 1 / DirDen.
DirDen == 4

\* Largest number of entries of the arrays handed to check_start_probs and
\* check_transitions that no generator produced.
MaxCells == 4

\* ----------------------------------------------------------------- helpers

Min(a, b) == IF a <= b THEN a ELSE b

Abs(a) == IF a >= 0 THEN a ELSE 0 - a

Range(s) == {s[i] : i \in 1..Len(s)}

RECURSIVE SumSeq(_)
SumSeq(s) == IF s = <<>> THEN 0 ELSE s[1] + SumSeq(Tail(s))

RECURSIVE Concat(_)
Concat(ss) == IF ss = <<>> THEN <<>> ELSE ss[1] \o Concat(Tail(ss))

\* All sequences over S of length lo..hi.
SeqsOf(S, lo, hi) == UNION {[1..n -> S] : n \in lo..hi}

\* numpy.unique / sorted(set(...)): the members of S in ascending order.
RECURSIVE SortedUnique(_)
SortedUnique(S) ==
    IF S = {} THEN <<>>
    ELSE LET m == CHOOSE x \in S : \A y \in S : x <= y
         IN  <<m>> \o SortedUnique(S \ {m})

\* numpy.isclose(a, b) with the default rtol = 1e-5, atol = 1e-8, for the
\* rationals a / den and b / den:  |a - b| <= atol + rtol * |b|.
IsClose(a, b, den) == Abs(a - b) * 100000000 <= den + 1000 * Abs(b)

\* ---------------------------------------------------------- the GMMHMM pool

\* Observation sequences (see the conventions above).
Sequences_ == {1, 2}

\* len(x) of a single observation sequence: its number of frames.
Frames(x) == x

\* The trained models a caller can hand to fit.  lik[x] is P(x | model) in a
\* common unit; n_seqs_ is the number of sequences the model was trained on.
\* Two of the models carry the same label.
GMMHMMs ==
    { [isGMMHMM |-> TRUE, label |-> 1, n_seqs_ |-> 1, lik |-> <<2, 1>>],
      [isGMMHMM |-> TRUE, label |-> 2, n_seqs_ |-> 2, lik |-> <<1, 1>>],
      [isGMMHMM |-> TRUE, label |-> 3, n_seqs_ |-> 1, lik |-> <<1, 2>>],
      [isGMMHMM |-> TRUE, label |-> 2, n_seqs_ |-> 1, lik |-> <<3, 1>>] }

\* Something that is not a GMMHMM (the 'a' of test_fit_list_invalid).
NotAModel == [isGMMHMM |-> FALSE, label |-> 0, n_seqs_ |-> 0, lik |-> <<0, 0>>]

\* GMMHMM.forward(x), as the likelihood it is the logarithm of.
Forward(model, x) == model.lik[x]

\* A sequence that passes the validation of predict and that no model and no
\* distance can score: forward, and the distance to any reference, raise on it.
Unscorable == 4

ErrScore == "ValueError: the sequence cannot be scored"

\* The loop over a chunk raises at the first sequence that cannot be scored.
ScoreFails(chunk) == \E n \in 1..Len(chunk) : chunk[n] = Unscorable

\* The calls of forward the loops of _chunk_predict and _predict make on a
\* chunk: one per model and sequence, up to and with the call that raises.
ForwardCalls(models, chunk) ==
    IF ScoreFails(chunk)
    THEN (CHOOSE n \in 1..Len(chunk) :
             chunk[n] = Unscorable /\ \A i \in 1..(n - 1) : chunk[i] # Unscorable)
         * Len(models) - (Len(models) - 1)
    ELSE Len(chunk) * Len(models)

\* ------------------------------------------------- HMMClassifier: functions

\* The outcomes of a call that raised.  The validator of the repository
\* (internals._Validator) turns a missing attribute into the not-fitted error.
NotFittedHMM == "NotFitted: No models available - the classifier must be fitted first"
ErrFitType == "TypeError: Expected all models to be GMMHMM objects"
ErrFitEmpty == "RuntimeError: The classifier must be fitted with at least one HMM"
ErrPriorLen == "AssertionError: There must be a class prior for each HMM or class"
ErrPriorRange == "AssertionError: Class priors must each be between zero and one"
ErrPriorSum == "AssertionError: Class priors must form a probability distribution by summing to one"
ErrPriorName == "ValueError: prior must be one of ['frequency', 'uniform']"
ErrUnseen == "ValueError: y contains previously unseen labels"

\* A prior argument: one of the strings, or an explicit vector whose entries
\* are multiples of 1 / PriorDen.
StrPrior(name) == [name |-> name, kind |-> "str", vec |-> <<>>]
VecPrior(vec) == [name |-> "", kind |-> "vec", vec |-> vec]

\* An X argument: a single observation sequence (a numpy.ndarray) or a list.
Single(x) == [single |-> TRUE, seqs |-> <<x>>]
Batch(xs) == [single |-> FALSE, seqs |-> xs]

\* len(X): the number of frames of a single sequence, the length of a list.
LenX(X) == IF X.single THEN Frames(X.seqs[1]) ELSE Len(X.seqs)

\* _Validator.is_fitted(self, lambda self: self._models_, message): the
\* attribute access fails exactly when _models_ was never assigned.
IsFitted(attributes) == "_models_" \in attributes

\* LabelEncoder.fit(labels).classes_
EncoderFit(labels) == SortedUnique(Range(labels))

\* LabelEncoder.transform([label]).item(): the 0-based index of label in
\* classes, or -1 for a label that is not among them (transform raises).
EncoderTransform(classes, label) ==
    IF \E i \in 1..Len(classes) : classes[i] = label
    THEN (CHOOSE i \in 1..Len(classes) : classes[i] = label) - 1
    ELSE -1

\* CheckPrior without the check of the sum.
CheckPrior_NoSum(models, prior) ==
    IF prior.kind = "vec"
    THEN IF Len(prior.vec) # Len(models) THEN ErrPriorLen
         ELSE IF \E i \in 1..Len(prior.vec) :
                    ~(0 <= prior.vec[i] /\ prior.vec[i] <= PriorDen)
              THEN ErrPriorRange
         ELSE ""
    ELSE IF prior.name \notin {"frequency", "uniform"} THEN ErrPriorName
    ELSE ""

\* The checks of predict's prior argument (lines 97-104): "" when it passes.
CheckPrior(models, prior) ==
    IF prior.kind = "vec"
    THEN IF Len(prior.vec) # Len(models) THEN ErrPriorLen
         ELSE IF \E i \in 1..Len(prior.vec) :
                    ~(0 <= prior.vec[i] /\ prior.vec[i] <= PriorDen)
              THEN ErrPriorRange
         ELSE IF ~IsClose(SumSeq(prior.vec), PriorDen, PriorDen) THEN ErrPriorSum
         ELSE ""
    ELSE IF prior.name \notin {"frequency", "uniform"} THEN ErrPriorName
    ELSE ""

\* The dict _get_priors builds, label -> prior: a later model of the list
\* overwrites the entry of an earlier model with the same label.
LastWith(models, label) ==
    CHOOSE i \in 1..Len(models) :
        /\ models[i].label = label
        /\ \A j \in (i+1)..Len(models) : models[j].label # label

GetPriors(models, classes, prior) ==
    [l \in {models[i].label : i \in 1..Len(models)} |->
        IF prior.kind = "str" /\ prior.name = "frequency"
        THEN [den |-> SumSeq([i \in 1..Len(models) |-> models[i].n_seqs_]),
              num |-> models[LastWith(models, l)].n_seqs_]
        ELSE IF prior.kind = "str" /\ prior.name = "uniform"
        THEN [den |-> Len(models), num |-> 1]
        ELSE [den |-> PriorDen, num |-> prior.vec[EncoderTransform(classes, l) + 1]]]

\* _predict: one score per model, in the order of self._models_.
ScoreOf(model, x, priors) ==
    [den |-> priors[model.label].den,
     num |-> Forward(model, x) * priors[model.label].num]

PredictScores(models, x, priors) ==
    [i \in 1..Len(models) |-> ScoreOf(models[i], x, priors)]

\* _chunk_predict: numpy.stack of the rows of a chunk.
ChunkPredict(models, chunk, priors) ==
    [n \in 1..Len(chunk) |-> PredictScores(models, chunk[n], priors)]

\* a > b for two scores.
Greater(a, b) == a.num * b.den > b.num * a.den

\* numpy argmax: the 0-based index of the first maximal entry.
ArgMax(row) ==
    (CHOOSE i \in 1..Len(row) :
        /\ \A j \in 1..Len(row) : ~Greater(row[j], row[i])
        /\ \A j \in 1..(i-1) : Greater(row[i], row[j])) - 1

\* LabelEncoder.inverse_transform of 0-based indices: the labels, or the
\* empty sequence and an error when an index is outside classes.
InverseOk(classes, idx) == \A n \in 1..Len(idx) : idx[n] < Len(classes)

InverseTransform(classes, idx) == [n \in 1..Len(idx) |-> classes[idx[n] + 1]]

\* _output: the labels handed back for the indices idx.
Output(classes, idx, original_labels) ==
    IF ~original_labels THEN [labels |-> idx, err |-> ""]
    ELSE IF InverseOk(classes, idx)
    THEN [labels |-> InverseTransform(classes, idx), err |-> ""]
    ELSE [labels |-> <<>>, err |-> ErrUnseen]

WarnSingle == "Single predictions do not yet support multi-processing"
WarnProgress == "Progress bars cannot be displayed when using multiple processes"

\* The process that called predict, as a renderer of progress displays;
\* worker i is i.
Caller == 0

\* A call of predict, with the defaults of the handler's result filled in.
\* bars (the processes that rendered a progress display) is no part of what
\* predict returns: it records what the call did.
PredictCall(X, prior, return_scores, original_labels, verbose, n_jobs) ==
    [X |-> X, labels |-> <<>>, prior |-> prior, original_labels |-> original_labels,
     err |-> "", return_scores |-> return_scores, verbose |-> verbose, n_jobs |-> n_jobs,
     cls |-> "HMMClassifier", op |-> "predict", scores |-> <<>>, warns |-> {},
     workers |-> 0, scored |-> 0, completion |-> <<>>, bars |-> {}]

\* Lines 118 and 125: _predict (single sequence) and _chunk_predict (batch on
\* the calling process) wrap their loop in a progress bar that is rendered
\* when verbose is set.
HmmBars(verbose) == IF verbose THEN {Caller} ELSE {}

\* Lines 95-108 of predict: the error the call raises before it scores, or "".
PredictCheck(attributes, models, prior) ==
    IF ~IsFitted(attributes) THEN NotFittedHMM ELSE CheckPrior(models, prior)

\* Lines 110: the number of workers.
EffectiveJobs(X, n_jobs) == Min(n_jobs, LenX(X))

\* Lines 119, 135-137: argmax of every row, then _output.  scores holds one
\* row per sequence of X.
PredictReturn(call, models, classes, scores, warns, workers) ==
    LET idx == [n \in 1..Len(scores) |-> ArgMax(scores[n])]
        out == Output(classes, idx, call.original_labels)
    IN  IF out.err # ""
        THEN [call EXCEPT !.err = out.err, !.warns = warns, !.workers = workers,
                          !.scored = Len(scores) * Len(models)]
        ELSE [call EXCEPT !.labels = out.labels,
                          !.scores = IF call.return_scores THEN scores ELSE <<>>,
                          !.warns = warns, !.workers = workers,
                          !.scored = Len(scores) * Len(models)]

\* predict on the calling thread that weighs the models uniformly when more
\* than one worker was asked for.
PredictSerial_ByJobs(attributes, models, classes, call) ==
    LET err == PredictCheck(attributes, models, call.prior)
        workers == EffectiveJobs(call.X, call.n_jobs)
        priors == GetPriors(models, classes,
                            IF call.n_jobs > 1 THEN StrPrior("uniform") ELSE call.prior)
    IN  IF err # "" THEN [call EXCEPT !.err = err]
        ELSE IF ScoreFails(call.X.seqs)
        THEN [call EXCEPT !.err = ErrScore,
                          !.warns = IF call.X.single /\ workers > 1
                                    THEN {WarnSingle} ELSE {},
                          !.workers = workers,
                          !.scored = ForwardCalls(models, call.X.seqs),
                          !.bars = HmmBars(call.verbose)]
        ELSE [PredictReturn(call, models, classes,
                            ChunkPredict(models, call.X.seqs, priors),
                            IF call.X.single /\ workers > 1 THEN {WarnSingle} ELSE {},
                            workers)
                EXCEPT !.bars = HmmBars(call.verbose)]

\* predict on the calling thread: a single sequence, or a batch with one
\* worker.  The warning of line 116 is emitted before _predict is called
\* (line 118), so a call whose scoring raises has warned as well.
PredictSerial(attributes, models, classes, call) ==
    LET err == PredictCheck(attributes, models, call.prior)
        workers == EffectiveJobs(call.X, call.n_jobs)
        priors == GetPriors(models, classes, call.prior)
    IN  IF err # "" THEN [call EXCEPT !.err = err]
        ELSE IF ScoreFails(call.X.seqs)
        THEN [call EXCEPT !.err = ErrScore,
                          !.warns = IF call.X.single /\ workers > 1
                                    THEN {WarnSingle} ELSE {},
                          !.workers = workers,
                          !.scored = ForwardCalls(models, call.X.seqs),
                          !.bars = HmmBars(call.verbose)]
        ELSE [PredictReturn(call, models, classes,
                            ChunkPredict(models, call.X.seqs, priors),
                            IF call.X.single /\ workers > 1 THEN {WarnSingle} ELSE {},
                            workers)
                EXCEPT !.bars = HmmBars(call.verbose)]

\* HMMClassifier.evaluate, lines 181-182, once predict has returned the
\* 0-based predictions: the confusion matrix over the encoder's classes
\* (rows true, columns predicted) and the accuracy trace / sum.
ConfusionMatrix(truth, predicted, n) ==
    [i \in 1..n |-> [j \in 1..n |->
        Cardinality({s \in 1..Len(truth) :
                        truth[s] = i - 1 /\ predicted[s] = j - 1})]]

Trace(cm) == SumSeq([i \in 1..Len(cm) |-> cm[i][i]])

Total(cm) == SumSeq([i \in 1..Len(cm) |-> SumSeq(cm[i])])

EvaluateCall(X, y, prior, verbose, n_jobs) ==
    [y |-> y, X |-> X, prior |-> prior, err |-> "", verbose |-> verbose,
     n_jobs |-> n_jobs, cls |-> "HMMClassifier", op |-> "evaluate", warns |-> {},
     workers |-> 0, scored |-> 0, completion |-> <<>>, cm |-> <<>>, predictions |-> <<>>,
     accuracy |-> [den |-> 0, num |-> 0]]

\* The predict call evaluate makes (line 180).
EvaluatePredictCall(call) ==
    PredictCall(call.X, call.prior, FALSE, FALSE, call.verbose, call.n_jobs)

\* Lines 181-182, given what predict returned.
EvaluateReturn(call, classes, predicted) ==
    LET base == [call EXCEPT !.warns = predicted.warns, !.workers = predicted.workers,
                             !.scored = predicted.scored,
                             !.completion = predicted.completion]
        truth == [s \in 1..Len(call.y) |-> EncoderTransform(classes, call.y[s])]
        cm == ConfusionMatrix(truth, predicted.labels, Len(classes))
    IN  IF predicted.err # "" THEN [base EXCEPT !.err = predicted.err]
        ELSE IF \E s \in 1..Len(truth) : truth[s] = -1
        THEN [base EXCEPT !.err = ErrUnseen, !.predictions = predicted.labels]
        ELSE [base EXCEPT !.predictions = predicted.labels, !.cm = cm,
                          !.accuracy = [den |-> Total(cm), num |-> Trace(cm)]]

\* --------------------------------------------------- HMMClassifier: actions

NoJob == [active |-> FALSE]

hmmVars == <<attrs, models_, encoder_>>

knnVars == <<knnAttrs, k_, radius_, X_, y_>>

fileVars == <<pkl, deserialized, h5, clf>>

NoFile == [exists |-> FALSE]

NoInstance == [exists |-> FALSE]

\* What the caller holds while its call has not returned.
Running == [err |-> "", cls |-> "", op |-> "running"]

Idle == ~job.active

\* fit that stores the collection before it has checked it.
HMMClassifier_fit_StoresFirst(models) ==
    /\ Idle
    /\ models_' = models
    /\ attrs' = attrs \cup {"_models_"}
    /\ IF \E i \in 1..Len(models) : ~models[i].isGMMHMM
       THEN /\ ret' = [models |-> models, err |-> ErrFitType, cls |-> "HMMClassifier",
                       op |-> "fit"]
            /\ UNCHANGED encoder_
       ELSE IF Len(models) > 0
       THEN /\ encoder_' = EncoderFit([i \in 1..Len(models) |-> models[i].label])
            /\ ret' = [models |-> models, err |-> "", cls |-> "HMMClassifier",
                       op |-> "fit"]
       ELSE /\ ret' = [models |-> models, err |-> ErrFitEmpty, cls |-> "HMMClassifier",
                       op |-> "fit"]
            /\ UNCHANGED encoder_
    /\ UNCHANGED <<job, slots, order, knnVars, fileVars, topology, hmm>>

\* HMMClassifier.fit(models)
HMMClassifier_fit(models) ==
    /\ Idle
    /\ IF \E i \in 1..Len(models) : ~models[i].isGMMHMM
       THEN /\ ret' = [models |-> models, err |-> ErrFitType, cls |-> "HMMClassifier",
                       op |-> "fit"]
            /\ UNCHANGED <<attrs, models_, encoder_>>
       ELSE IF Len(models) > 0
       THEN /\ models_' = models
            /\ encoder_' = EncoderFit([i \in 1..Len(models) |-> models[i].label])
            /\ attrs' = attrs \cup {"_models_", "_encoder_"}
            /\ ret' = [models |-> models, err |-> "", cls |-> "HMMClassifier",
                       op |-> "fit"]
       ELSE /\ ret' = [models |-> models, err |-> ErrFitEmpty, cls |-> "HMMClassifier",
                       op |-> "fit"]
            /\ UNCHANGED <<attrs, models_, encoder_>>
    /\ UNCHANGED <<job, slots, order, knnVars, fileVars, topology, hmm>>

\* HMMClassifier.predict(X, prior, return_scores, original_labels, verbose,
\* n_jobs) when it runs on the calling thread: any call that fails its checks,
\* a single sequence, or a batch for which min(n_jobs, len(X)) is 1.
HMMClassifier_predict(X, prior, return_scores, original_labels, verbose, n_jobs) ==
    LET call == PredictCall(X, prior, return_scores, original_labels, verbose, n_jobs)
    IN  /\ Idle
        /\ \/ PredictCheck(attrs, models_, prior) # ""
           \/ X.single
           \/ EffectiveJobs(X, n_jobs) = 1
        /\ ret' = PredictSerial(attrs, models_, encoder_, call)
        /\ UNCHANGED <<attrs, models_, encoder_, job, slots, order, knnVars, fileVars, topology, hmm>>

\* An evaluate that fits the label encoder anew, on the labels it is given.
HMMClassifier_evaluate_Refits(X, y, prior, verbose, n_jobs) ==
    LET call == EvaluateCall(X, y, prior, verbose, n_jobs)
    IN  /\ Idle
        /\ \/ PredictCheck(attrs, models_, prior) # ""
           \/ EffectiveJobs(X, n_jobs) = 1
        /\ ret' = EvaluateReturn(call, encoder_,
                     PredictSerial(attrs, models_, encoder_, EvaluatePredictCall(call)))
        /\ encoder_' = IF IsFitted(attrs) THEN EncoderFit(y) ELSE encoder_
        /\ UNCHANGED <<attrs, models_, job, slots, order, knnVars, fileVars, topology, hmm>>

\* HMMClassifier.evaluate(X, y, prior, verbose, n_jobs), likewise on the
\* calling thread.
HMMClassifier_evaluate(X, y, prior, verbose, n_jobs) ==
    LET call == EvaluateCall(X, y, prior, verbose, n_jobs)
    IN  /\ Idle
        /\ \/ PredictCheck(attrs, models_, prior) # ""
           \/ EffectiveJobs(X, n_jobs) = 1
        /\ ret' = EvaluateReturn(call, encoder_,
                     PredictSerial(attrs, models_, encoder_, EvaluatePredictCall(call)))
        /\ UNCHANGED <<attrs, models_, encoder_, job, slots, order, knnVars, fileVars, topology, hmm>>

\* ------------------------------------- HMMClassifier: predict on a worker pool

\* numpy.array_split(xs, n): n contiguous chunks, the first len(xs) % n of
\* them one longer than the others.
ChunkSize_NoRemainder(N, n, i) == N \div n

ChunkSize(N, n, i) == (N \div n) + (IF i <= N % n THEN 1 ELSE 0)

ChunkStart(N, n, i) == (i - 1) * (N \div n) + Min(i - 1, N % n)

ArraySplit(xs, n) ==
    [i \in 1..n |->
        SubSeq(xs, ChunkStart(Len(xs), n, i) + 1,
                   ChunkStart(Len(xs), n, i) + ChunkSize(Len(xs), n, i))]

\* Gather with the results stacked in the order the workers finished.
Gather_ByCompletion(results, completion) ==
    Concat([j \in 1..Len(completion) |-> results[completion[j]].rows])

\* numpy.vstack(Parallel(n_jobs)(...)): joblib hands the results back in the
\* order the chunks were submitted, whatever the order they were finished in.
Gather(results, completion) ==
    Concat([i \in 1..Len(results) |-> results[i].rows])

\* The predict call behind a call of predict or evaluate.
PredictCallOf(call) ==
    IF call.op = "evaluate" THEN EvaluatePredictCall(call) ELSE call

\* Lines 127-133: predict (or evaluate, through it) on a batch with more than
\* one worker: the checks passed, the chunks are handed to the workers.
HMMClassifier_predict_dispatch(call) ==
    LET workers == EffectiveJobs(call.X, call.n_jobs)
    IN  /\ Idle
        /\ PredictCheck(attrs, models_, call.prior) = ""
        /\ ~call.X.single
        /\ workers > 1
        /\ job' = [priors |-> GetPriors(models_, encoder_, call.prior),
                   cls |-> "HMMClassifier",
                   warns |-> IF call.verbose THEN {WarnProgress} ELSE {},
                   workers |-> workers, call |-> call, active |-> TRUE,
                   chunks |-> ArraySplit(call.X.seqs, workers)]
        /\ slots' = [i \in 1..workers |->
                        [err |-> "", bars |-> {}, rows |-> <<>>, done |-> FALSE]]
        /\ order' = <<>>
        /\ ret' = Running
        /\ UNCHANGED <<attrs, models_, encoder_, knnVars, fileVars, topology, hmm>>

\* The progress bar of _chunk_predict in worker i (line 229).
WorkerBars(i, verbose) == IF verbose THEN {i} ELSE {}

\* One worker runs _chunk_predict(chunk, priors) on its chunk: verbose is
\* left at its default, False.  A forward that raises ends the worker with
\* that error.
HMMClassifier_chunk_worker(i) ==
    /\ job.active
    /\ job.cls = "HMMClassifier"
    /\ i \in 1..Len(slots)
    /\ ~slots[i].done
    /\ slots' = [slots EXCEPT ![i] =
                    IF ScoreFails(job.chunks[i])
                    THEN [err |-> ErrScore, bars |-> WorkerBars(i, FALSE),
                          rows |-> <<>>, done |-> TRUE]
                    ELSE [err |-> "", bars |-> WorkerBars(i, FALSE),
                          rows |-> ChunkPredict(models_, job.chunks[i], job.priors),
                          done |-> TRUE]]
    /\ order' = Append(order, i)
    /\ UNCHANGED <<attrs, models_, encoder_, ret, job, knnVars, fileVars, topology, hmm>>

\* A gather that, when a worker failed, still returns the labels and scores of
\* the chunks that were scored.
HMMClassifier_predict_gather_Partial ==
    /\ job.active
    /\ job.cls = "HMMClassifier"
    /\ \/ \E i \in 1..Len(slots) : slots[i].err # ""
       \/ \A i \in 1..Len(slots) : slots[i].done
    /\ LET failed == {i \in 1..Len(slots) : slots[i].err # ""}
           scored == PredictReturn(PredictCallOf(job.call), models_, encoder_,
                                   Gather(slots, order), job.warns, job.workers)
           returned ==
               IF failed # {}
               THEN [scored EXCEPT !.err = slots[CHOOSE i \in failed : TRUE].err]
               ELSE scored
           predicted == [returned EXCEPT !.completion = order,
                                         !.bars = UNION {slots[i].bars : i \in 1..Len(slots)}]
       IN  ret' = IF job.call.op = "evaluate"
                  THEN EvaluateReturn(job.call, encoder_, predicted)
                  ELSE predicted
    /\ job' = NoJob
    /\ slots' = <<>>
    /\ order' = <<>>
    /\ UNCHANGED <<attrs, models_, encoder_, knnVars, fileVars, topology, hmm>>

\* Parallel raises the error of a worker that failed (line 133); when every
\* worker is done, lines 133-137 (and 181-182 for evaluate).
HMMClassifier_predict_gather ==
    /\ job.active
    /\ job.cls = "HMMClassifier"
    /\ \/ \E i \in 1..Len(slots) : slots[i].err # ""
       \/ \A i \in 1..Len(slots) : slots[i].done
    /\ LET failed == {i \in 1..Len(slots) : slots[i].err # ""}
           returned ==
               IF failed # {}
               THEN [PredictCallOf(job.call) EXCEPT
                        !.err = slots[CHOOSE i \in failed : TRUE].err,
                        !.warns = job.warns, !.workers = job.workers,
                        !.scored = SumSeq([i \in 1..Len(slots) |->
                                       IF slots[i].done
                                       THEN ForwardCalls(models_, job.chunks[i])
                                       ELSE 0])]
               ELSE PredictReturn(PredictCallOf(job.call), models_, encoder_,
                                  Gather(slots, order), job.warns, job.workers)
           \* completion is no part of what predict returns: it records the
           \* order in which the workers of this call finished.
           predicted == [returned EXCEPT !.completion = order,
                                         !.bars = UNION {slots[i].bars : i \in 1..Len(slots)}]
       IN  ret' = IF job.call.op = "evaluate"
                  THEN EvaluateReturn(job.call, encoder_, predicted)
                  ELSE predicted
    /\ job' = NoJob
    /\ slots' = <<>>
    /\ order' = <<>>
    /\ UNCHANGED <<attrs, models_, encoder_, knnVars, fileVars, topology, hmm>>

\* ------------------------------------------------------- DTWKNN: functions

ErrNeighbors == "ValueError: number of neighbors must be greater than zero"
ErrRadius == "ValueError: radius parameter must be greater than zero"
ErrCounts == "ValueError: the numbers of observation sequences and labels differ"
NotFittedPredict == "RuntimeError: The classifier needs to be fitted before predictions are made"
NotFittedSave == "RuntimeError: The classifier needs to be fitted before it can be saved"
ErrKth == "ValueError: kth out of bounds"

Max(a, b) == IF a >= b THEN a ELSE b

\* fastdtw(x1, x2, radius=radius, dist=euclidean)[0]: for two constant
\* sequences every step of the warping path costs the difference of the two
\* values, and the shortest path has as many steps as the longer sequence.
Distance(x1, x2, radius) == Max(Frames(x1), Frames(x2)) * Abs(x1 - x2)

\* (self._X, self._y) raises AttributeError until fit has assigned both.
KnnFitted(attributes) == {"_X", "_y"} \subseteq attributes

\* a < b for two strings (sequences of character codes).
RECURSIVE LexLess(_, _)
LexLess(a, b) ==
    IF b = <<>> THEN FALSE
    ELSE IF a = <<>> THEN TRUE
    ELSE IF a[1] # b[1] THEN a[1] < b[1]
    ELSE LexLess(Tail(a), Tail(b))

\* sorted(set(...)) of strings.
RECURSIVE SortedStrings(_)
SortedStrings(S) ==
    IF S = {} THEN <<>>
    ELSE LET m == CHOOSE x \in S : \A y \in S \ {x} : LexLess(x, y)
         IN  <<m>> \o SortedStrings(S \ {m})

\* numpy.argpartition(distances, k)[:k]: k indices (1-based here) whose
\* distances are not larger than any other distance.  Which of several equal
\* distances at the boundary is taken is left to numpy's selection: every
\* choice is a possible outcome.
Selections(distances, k) ==
    {S \in SUBSET (1..Len(distances)) :
        /\ Cardinality(S) = k
        /\ \A i \in S : \A j \in (1..Len(distances)) \ S :
              distances[i] <= distances[j]}

\* find_modes that returns every label that occurs among the neighbours.
Modes_AnyNeighbour(labels, selected) == {labels[i] : i \in selected}

\* find_modes, lines 82-86: the labels with the highest count among the
\* neighbours selected.
Modes(labels, selected) ==
    LET count(l) == Cardinality({i \in selected : labels[i] = l})
    IN  {l \in {labels[i] : i \in selected} :
            \A m \in {labels[i] : i \in selected} : count(m) <= count(l)}

\* The labels random.choice(find_modes(distances)) can return for query O.
QueryLabels(refs, labels, k, radius, O) ==
    UNION {Modes(labels, S) :
             S \in Selections([i \in 1..Len(refs) |-> Distance(O, refs[i], radius)], k)}

\* The label lists the loop of lines 96-100 (105-108 in a worker) can build.
PossibleLabels(refs, labels, k, radius, queries) ==
    {l \in [1..Len(queries) -> Range(labels)] :
        \A n \in 1..Len(queries) :
            l[n] \in QueryLabels(refs, labels, k, radius, queries[n])}

\* What lines 97-100 can do for the query O: the neighbours (positions in the
\* reference list) that argpartition selects, and the label random.choice
\* draws from their modes.
QueryPicks(refs, labels, k, radius, O) ==
    UNION {{[label |-> l, neighbors |-> S] : l \in Modes(labels, S)} :
             S \in Selections([i \in 1..Len(refs) |-> Distance(O, refs[i], radius)], k)}

\* The picks the loop of lines 96-100 (105-108 in a worker) can make, query
\* by query.
PossiblePicks(refs, labels, k, radius, queries) ==
    {p \in [1..Len(queries) ->
                UNION {QueryPicks(refs, labels, k, radius, queries[n]) :
                         n \in 1..Len(queries)}] :
        \A n \in 1..Len(queries) :
            p[n] \in QueryPicks(refs, labels, k, radius, queries[n])}

\* A call of predict.  neighbors (the neighbours tallied for each query) and
\* bars (the processes that rendered a progress display) are no part of what
\* predict returns: they record what the call did.
KnnPredictCall(X, verbose, n_jobs) ==
    [X |-> X, labels |-> <<>>, err |-> "", verbose |-> verbose, n_jobs |-> n_jobs,
     cls |-> "DTWKNN", op |-> "predict", warns |-> {}, workers |-> 0,
     completion |-> <<>>, bars |-> {}, neighbors |-> <<>>]

\* What a chunk of queries yields, on the calling thread or in a worker: for
\* each query in turn the distances are computed (line 97 / 106), which
\* raises on a query that cannot be scored, and then argpartition raises when
\* k is not below the number of references.
ChunkOutcomes(refs, labels, k, radius, queries) ==
    IF queries = <<>> THEN {[err |-> "", rows |-> <<>>, neighbors |-> <<>>]}
    ELSE IF queries[1] = Unscorable
    THEN {[err |-> ErrScore, rows |-> <<>>, neighbors |-> <<>>]}
    ELSE IF k >= Len(refs) THEN {[err |-> ErrKth, rows |-> <<>>, neighbors |-> <<>>]}
    ELSE IF ScoreFails(queries)
    THEN {[err |-> ErrScore, rows |-> <<>>, neighbors |-> <<>>]}
    ELSE {[err |-> "",
           rows |-> [n \in 1..Len(queries) |-> p[n].label],
           neighbors |-> [n \in 1..Len(queries) |-> p[n].neighbors]] :
            p \in PossiblePicks(refs, labels, k, radius, queries)}

\* Lines 89 and 96: the calling process renders the progress bar of its loop
\* when verbose is set.
KnnBars(verbose) == IF verbose THEN {Caller} ELSE {}

\* predict that scores without looking for the references first.
KnnPredictSerial_NoFittedCheck(attributes, refs, labels, k, radius, call) ==
    {IF out.err # ""
     THEN [call EXCEPT !.err = out.err, !.workers = 1, !.bars = KnnBars(call.verbose)]
     ELSE [call EXCEPT !.labels = out.rows, !.workers = 1,
                       !.neighbors = out.neighbors, !.bars = KnnBars(call.verbose)] :
        out \in ChunkOutcomes(refs, labels, k, radius, call.X.seqs)}

\* predict on the calling thread (a single sequence, or a list with n_jobs = 1):
\* every outcome the call can have.
KnnPredictSerial(attributes, refs, labels, k, radius, call) ==
    IF ~KnnFitted(attributes) THEN {[call EXCEPT !.err = NotFittedPredict]}
    ELSE {IF out.err # ""
          THEN [call EXCEPT !.err = out.err, !.workers = 1,
                            !.bars = KnnBars(call.verbose)]
          ELSE [call EXCEPT !.labels = out.rows, !.workers = 1,
                            !.neighbors = out.neighbors,
                            !.bars = KnnBars(call.verbose)] :
            out \in ChunkOutcomes(refs, labels, k, radius, call.X.seqs)}

KnnEvaluateCall(X, y, verbose, n_jobs) ==
    [y |-> y, X |-> X, err |-> "", verbose |-> verbose, n_jobs |-> n_jobs,
     cls |-> "DTWKNN", op |-> "evaluate", workers |-> 0, completion |-> <<>>,
     cm |-> <<>>, predictions |-> <<>>, accuracy |-> [den |-> 0, num |-> 0],
     axes |-> <<>>]

\* The predict call evaluate makes (line 152).
KnnEvaluatePredictCall(call) == KnnPredictCall(call.X, call.verbose, call.n_jobs)

KnnPredictCallOf(call) ==
    IF call.op = "evaluate" THEN KnnEvaluatePredictCall(call) ELSE call

\* The position (0-based) of label l on the axes of the confusion matrix.
AxisOf(axes, l) == (CHOOSE i \in 1..Len(axes) : axes[i] = l) - 1

\* Lines 153-155 with labels=None: the axes are the sorted labels that occur
\* in y or in the predictions.
KnnEvaluateReturn(call, predicted) ==
    LET base == [call EXCEPT !.workers = predicted.workers,
                             !.completion = predicted.completion]
        axes == SortedStrings(Range(call.y) \cup Range(predicted.labels))
        cm == ConfusionMatrix([s \in 1..Len(call.y) |-> AxisOf(axes, call.y[s])],
                              [s \in 1..Len(call.y) |-> AxisOf(axes, predicted.labels[s])],
                              Len(axes))
    IN  IF predicted.err # "" THEN [base EXCEPT !.err = predicted.err]
        ELSE [base EXCEPT !.predictions = predicted.labels, !.axes = axes, !.cm = cm,
                          !.accuracy = [den |-> Total(cm), num |-> Trace(cm)]]

\* --------------------------------------------------------- DTWKNN: actions

KnnExists == knnAttrs # {}

\* A constructor that checks k and takes any radius.
DTWKNN_init_AnyRadius(k, radius) ==
    /\ ~KnnExists
    /\ Idle
    /\ IF k <= 0
       THEN /\ ret' = [err |-> ErrNeighbors, cls |-> "DTWKNN", op |-> "init"]
            /\ UNCHANGED knnVars
       ELSE /\ knnAttrs' = {"_val", "_k", "_radius", "_metric"}
            /\ k_' = k
            /\ radius_' = radius
            /\ ret' = [err |-> "", cls |-> "DTWKNN", op |-> "init"]
            /\ UNCHANGED <<X_, y_>>
    /\ UNCHANGED <<hmmVars, job, slots, order, fileVars, topology, hmm>>

\* DTWKNN(k, radius): no instance results when k or radius is rejected.
DTWKNN_init(k, radius) ==
    /\ ~KnnExists
    /\ Idle
    /\ IF k <= 0
       THEN /\ ret' = [err |-> ErrNeighbors, cls |-> "DTWKNN", op |-> "init"]
            /\ UNCHANGED knnVars
       ELSE IF radius <= 0
       THEN /\ ret' = [err |-> ErrRadius, cls |-> "DTWKNN", op |-> "init"]
            /\ UNCHANGED knnVars
       ELSE /\ knnAttrs' = {"_val", "_k", "_radius", "_metric"}
            /\ k_' = k
            /\ radius_' = radius
            /\ ret' = [err |-> "", cls |-> "DTWKNN", op |-> "init"]
            /\ UNCHANGED <<X_, y_>>
    /\ UNCHANGED <<hmmVars, job, slots, order, fileVars, topology, hmm>>

\* DTWKNN.fit(X, y): the validator rejects sequences and labels of different
\* numbers before anything is assigned.
DTWKNN_fit(X, y) ==
    /\ KnnExists
    /\ Idle
    /\ IF Len(X) # Len(y)
       THEN /\ ret' = [y |-> y, X |-> X, err |-> ErrCounts, cls |-> "DTWKNN",
                       op |-> "fit"]
            /\ UNCHANGED knnVars
       ELSE /\ X_' = X
            /\ y_' = y
            /\ knnAttrs' = knnAttrs \cup {"_X", "_y"}
            /\ ret' = [y |-> y, X |-> X, err |-> "", cls |-> "DTWKNN", op |-> "fit"]
            /\ UNCHANGED <<k_, radius_>>
    /\ UNCHANGED <<hmmVars, job, slots, order, fileVars, topology, hmm>>

\* DTWKNN.predict(X, verbose, n_jobs) on the calling thread: before fit, for a
\* single sequence, or for a list with n_jobs = 1.
DTWKNN_predict(X, verbose, n_jobs) ==
    /\ KnnExists
    /\ Idle
    /\ ~KnnFitted(knnAttrs) \/ X.single \/ n_jobs = 1
    /\ ret' \in KnnPredictSerial(knnAttrs, X_, y_, k_, radius_,
                                 KnnPredictCall(X, verbose, n_jobs))
    /\ UNCHANGED <<hmmVars, knnVars, job, slots, order, fileVars, topology, hmm>>

\* DTWKNN.evaluate(X, y, verbose, n_jobs), likewise on the calling thread.
DTWKNN_evaluate(X, y, verbose, n_jobs) ==
    LET call == KnnEvaluateCall(X, y, verbose, n_jobs)
    IN  /\ KnnExists
        /\ Idle
        /\ ~KnnFitted(knnAttrs) \/ n_jobs = 1
        /\ \E predicted \in KnnPredictSerial(knnAttrs, X_, y_, k_, radius_,
                                             KnnEvaluatePredictCall(call)) :
              ret' = KnnEvaluateReturn(call, predicted)
        /\ UNCHANGED <<hmmVars, knnVars, job, slots, order, fileVars, topology, hmm>>

\* Lines 102-113: predict (or evaluate, through it) on a list with n_jobs > 1:
\* the list is split into n_jobs chunks, one per worker.
DTWKNN_predict_dispatch(call) ==
    /\ KnnExists
    /\ Idle
    /\ KnnFitted(knnAttrs)
    /\ ~call.X.single
    /\ call.n_jobs > 1
    /\ job' = [cls |-> "DTWKNN", workers |-> call.n_jobs, call |-> call, active |-> TRUE,
               chunks |-> ArraySplit(call.X.seqs, call.n_jobs)]
    /\ slots' = [i \in 1..call.n_jobs |->
                    [err |-> "", bars |-> {}, rows |-> <<>>, done |-> FALSE,
                     neighbors |-> <<>>]]
    /\ order' = <<>>
    /\ ret' = Running
    /\ UNCHANGED <<hmmVars, knnVars, fileVars, topology, hmm>>

\* One worker runs parallel_predict(i, X_chunk), lines 103-109: its loop is
\* wrapped in a progress bar of its own (line 105), rendered when verbose is
\* set.
DTWKNN_parallel_predict(i) ==
    /\ job.active
    /\ job.cls = "DTWKNN"
    /\ i \in 1..Len(slots)
    /\ ~slots[i].done
    /\ \E out \in ChunkOutcomes(X_, y_, k_, radius_, job.chunks[i]) :
          slots' = [slots EXCEPT ![i] =
                       [err |-> out.err, bars |-> WorkerBars(i, job.call.verbose),
                        rows |-> out.rows, done |-> TRUE, neighbors |-> out.neighbors]]
    /\ order' = Append(order, i)
    /\ UNCHANGED <<hmmVars, knnVars, ret, job, fileVars, topology, hmm>>

\* The workers' lists joined in the order the workers finished.
Flatten_ByCompletion(results, completion) ==
    Concat([j \in 1..Len(completion) |-> results[completion[j]].rows])

\* Line 114: the lists Parallel returns, one per chunk in the order of the
\* chunks, flattened into one list of labels.
Flatten(results, completion) ==
    Concat([i \in 1..Len(results) |-> results[i].rows])

\* Lines 113-114: Parallel raises the error of a worker that failed; when all
\* workers are done their lists are flattened in the order of the chunks.
DTWKNN_predict_gather ==
    /\ job.active
    /\ job.cls = "DTWKNN"
    /\ \/ \E i \in 1..Len(slots) : slots[i].err # ""
       \/ \A i \in 1..Len(slots) : slots[i].done
    /\ LET call == KnnPredictCallOf(job.call)
           failed == {i \in 1..Len(slots) : slots[i].err # ""}
           predicted ==
               IF failed # {}
               THEN [call EXCEPT !.err = slots[CHOOSE i \in failed : TRUE].err,
                                 !.workers = job.workers, !.completion = order,
                                 !.bars = UNION {slots[i].bars : i \in 1..Len(slots)}]
               ELSE [call EXCEPT !.labels = Flatten(slots, order),
                                 !.workers = job.workers, !.completion = order,
                                 !.neighbors =
                                     Concat([i \in 1..Len(slots) |-> slots[i].neighbors]),
                                 !.bars = UNION {slots[i].bars : i \in 1..Len(slots)}]
       IN  ret' = IF job.call.op = "evaluate"
                  THEN KnnEvaluateReturn(job.call, predicted)
                  ELSE predicted
    /\ job' = NoJob
    /\ slots' = <<>>
    /\ order' = <<>>
    /\ UNCHANGED <<hmmVars, knnVars, fileVars, topology, hmm>>

\* ------------------------------------------------ HMMClassifier: save, load

ErrNoFile == "FileNotFoundError"

\* The instance dictionary in the order its entries were assigned: __init__
\* assigns _val, fit assigns _models_ and then _encoder_.
AttrOrder == <<"_val", "_models_", "_encoder_">>

\* A pickled GMMHMM, as the numbers of its state: the label, the number of
\* training sequences, and the parameters that decide forward, with their
\* count in front.
GMMHMM_reduce(model) == <<model.label, model.n_seqs_, Len(model.lik)>> \o model.lik

\* The pickled list of models: its length, then the models one after another.
RECURSIVE ReduceModels(_)
ReduceModels(models) ==
    IF models = <<>> THEN <<>>
    ELSE GMMHMM_reduce(Head(models)) \o ReduceModels(Tail(models))

\* The GMMHMM that starts at position pos of the numbers of a pickled list.
GMMHMM_rebuild(numbers, pos) ==
    [isGMMHMM |-> TRUE, label |-> numbers[pos], n_seqs_ |-> numbers[pos + 1],
     lik |-> SubSeq(numbers, pos + 3, pos + 2 + numbers[pos + 2])]

\* The n models that start at position pos.
RECURSIVE RebuildModels(_, _, _)
RebuildModels(numbers, pos, n) ==
    IF n = 0 THEN <<>>
    ELSE <<GMMHMM_rebuild(numbers, pos)>>
         \o RebuildModels(numbers, pos + 3 + numbers[pos + 2], n - 1)

\* A pickled LabelEncoder: the number of its classes_, then the classes.
LabelEncoder_reduce(classes) == <<Len(classes)>> \o classes

LabelEncoder_rebuild(numbers) == SubSeq(numbers, 2, 1 + numbers[1])

\* The value pickled under an attribute name.  The validator has no state.
ReduceAttr(name, models, classes) ==
    CASE name = "_models_" -> <<Len(models)>> \o ReduceModels(models)
      [] name = "_encoder_" -> LabelEncoder_reduce(classes)
      [] OTHER -> <<>>

\* pickle.dump(self, file): HMMClassifier defines no __reduce__ and no
\* __getstate__, so the stream holds the class and the entries of the
\* instance dictionary, each value pickled in turn.
Pickle(attributes, models, classes) ==
    LET names == SelectSeq(AttrOrder, LAMBDA name : name \in attributes)
    IN  [n \in 1..Len(names) |->
            [name |-> names[n], value |-> ReduceAttr(names[n], models, classes)]]

\* The numbers pickled under name, or none when the stream has no such entry.
Entry(blob, name) ==
    IF \E n \in 1..Len(blob) : blob[n].name = name
    THEN blob[CHOOSE n \in 1..Len(blob) : blob[n].name = name].value
    ELSE <<>>

\* The attribute names of the stream.
EntryNames(blob) == {blob[n].name : n \in 1..Len(blob)}

\* An instance restored with its models but a fresh, unfitted label encoder.
Unpickle_FreshEncoder(blob) ==
    [attrs |-> EntryNames(blob),
     models_ |-> IF "_models_" \in EntryNames(blob)
                 THEN RebuildModels(Entry(blob, "_models_"), 2, Entry(blob, "_models_")[1])
                 ELSE <<>>,
     encoder_ |-> <<>>, exists |-> TRUE]

\* pickle.load(file): an instance made without a call of __init__, whose
\* dictionary gets the entries of the stream, each value rebuilt in turn.
Unpickle(blob) ==
    [attrs |-> EntryNames(blob),
     models_ |-> IF "_models_" \in EntryNames(blob)
                 THEN RebuildModels(Entry(blob, "_models_"), 2, Entry(blob, "_models_")[1])
                 ELSE <<>>,
     encoder_ |-> IF "_encoder_" \in EntryNames(blob)
                  THEN LabelEncoder_rebuild(Entry(blob, "_encoder_"))
                  ELSE <<>>,
     exists |-> TRUE]

\* HMMClassifier.save(path), lines 184-194.
HMMClassifier_save ==
    /\ Idle
    /\ IF ~IsFitted(attrs)
       THEN /\ ret' = [err |-> NotFittedHMM, cls |-> "HMMClassifier", op |-> "save"]
            /\ UNCHANGED pkl
       ELSE /\ pkl' = [exists |-> TRUE, blob |-> Pickle(attrs, models_, encoder_)]
            /\ ret' = [err |-> "", cls |-> "HMMClassifier", op |-> "save"]
    /\ UNCHANGED <<hmmVars, knnVars, job, slots, order, deserialized, h5, clf, topology, hmm>>

\* HMMClassifier.load(path), lines 196-211.
HMMClassifier_load ==
    /\ Idle
    /\ IF ~pkl.exists
       THEN /\ ret' = [err |-> ErrNoFile, cls |-> "HMMClassifier", op |-> "load"]
            /\ UNCHANGED deserialized
       ELSE /\ deserialized' = Unpickle(pkl.blob)
            /\ ret' = [err |-> "", cls |-> "HMMClassifier", op |-> "load"]
    /\ UNCHANGED <<hmmVars, knnVars, job, slots, order, pkl, h5, clf, topology, hmm>>

\* ------------------------------------------------------- DTWKNN: save, load

\* str(i) for i >= 0: the decimal digits, as character codes.
RECURSIVE Str(_)
Str(i) == IF i < 10 THEN <<48 + i>> ELSE Str(i \div 10) \o <<48 + (i % 10)>>

\* One element of numpy.string_(labels): the label's bytes, NUL-padded to the
\* width of the longest label.
RECURSIVE Pad(_, _)
Pad(label, width) == IF Len(label) >= width THEN label ELSE Pad(Append(label, 0), width)

StringArray(labels) ==
    LET width == CHOOSE w \in {Len(labels[i]) : i \in 1..Len(labels)} :
                    \A i \in 1..Len(labels) : Len(labels[i]) <= w
    IN  [i \in 1..Len(labels) |-> Pad(labels[i], width)]

\* Reading an element back drops the trailing NULs; decode(encoding) of the
\* remaining ASCII bytes gives the characters.
RECURSIVE Decode(_)
Decode(bytes) ==
    IF bytes # <<>> /\ bytes[Len(bytes)] = 0
    THEN Decode(SubSeq(bytes, 1, Len(bytes) - 1))
    ELSE bytes

\* Group.keys(): the names of the datasets in the group, which HDF5 iterates
\* in increasing order of name.
Keys(group) == SortedStrings(DOMAIN group)

\* The group data/X that save writes, lines 183-185: dataset str(i) holds X[i].
WriteX(X) ==
    [name \in {Str(i) : i \in 0..(Len(X) - 1)} |->
        X[(CHOOSE i \in 0..(Len(X) - 1) : Str(i) = name) + 1]]

\* DTWKNN.save(path), lines 170-186.
DTWKNN_save ==
    /\ KnnExists
    /\ Idle
    /\ IF ~KnnFitted(knnAttrs)
       THEN /\ ret' = [err |-> NotFittedSave, cls |-> "DTWKNN", op |-> "save"]
            /\ UNCHANGED h5
       ELSE /\ h5' = [y |-> StringArray(y_), X |-> WriteX(X_), exists |-> TRUE,
                      radius |-> radius_, k |-> k_]
            /\ ret' = [err |-> "", cls |-> "DTWKNN", op |-> "save"]
    /\ UNCHANGED <<hmmVars, knnVars, job, slots, order, pkl, deserialized, clf, topology, hmm>>

\* DTWKNN.load(path), lines 216-226.
DTWKNN_load ==
    /\ Idle
    /\ IF ~h5.exists
       THEN /\ ret' = [err |-> ErrNoFile, cls |-> "DTWKNN", op |-> "load"]
            /\ UNCHANGED clf
       ELSE /\ clf' = [attrs |-> {"_val", "_k", "_radius", "_metric", "_X", "_y"},
                       k_ |-> h5.k, radius_ |-> h5.radius,
                       X_ |-> [n \in 1..Len(Keys(h5.X)) |-> h5.X[Keys(h5.X)[n]]],
                       y_ |-> [n \in 1..Len(h5.y) |-> Decode(h5.y[n])], exists |-> TRUE]
            /\ ret' = [err |-> "", cls |-> "DTWKNN", op |-> "load"]
    /\ UNCHANGED <<hmmVars, knnVars, job, slots, order, pkl, deserialized, h5, topology, hmm>>

\* ------------------------------------------------------------ input sets

\* Collections handed to fit: GMMHMMs in any order, repeated or not, and
\* collections with an element that is no GMMHMM.
FitInputs == SeqsOf(GMMHMMs \cup {NotAModel}, 0, MaxModels)

Batches == {Batch(xs) : xs \in SeqsOf(Sequences_, 1, MaxBatch)}

Inputs == {Single(x) : x \in Sequences_} \cup Batches

StrPriors == {StrPrior("frequency"), StrPrior("uniform"), StrPrior("bogus")}

\* A vector of length n that is p at position a, q at position b # a, else 0.
TwoHot(n, a, p, b, q) ==
    [i \in 1..n |-> IF i = a THEN p ELSE IF i = b THEN q ELSE 0]

\* Explicit priors of every length up to MaxModels: the distributions that put
\* all mass on at most two classes, and vectors with an entry below zero or
\* above one, or whose sum is not one.
VecPriors ==
    {VecPrior(v) : v \in UNION {
        {TwoHot(n, a, p, b, PriorDen - p) : a \in 1..n, b \in 1..n, p \in 0..PriorDen}
        \cup {TwoHot(n, a, p, b, 1 - p) : a \in 1..n, b \in 1..n, p \in {-1, PriorDen + 1}}
        \cup {TwoHot(n, a, 1, b, PriorDen) : a \in 1..n, b \in 1..n}
        : n \in 1..MaxModels}}

\* Labels of evaluate's y: labels of models, and one no model carries.
HMMLabels == {1, 2, 4}

\* ------------------------------------------------------ topologies: values

\* A probability num / den, and the arrays of them: a numpy.ndarray with its
\* shape, or (ndarray FALSE) some other object.
Rat(num, den) == [den |-> den, num |-> num]

Vec(v) == [ndarray |-> TRUE, shape |-> <<Len(v)>>, data |-> v]

Mat(m) == [ndarray |-> TRUE, shape |-> <<Len(m), Len(m[1])>>, data |-> m]

NotAnArray == [ndarray |-> FALSE, shape |-> <<>>, data |-> <<>>]

NoTopology == [name |-> "", n_states |-> 0]

ErrStartType == "TypeError: Initial state distribution must be a numpy.ndarray"
ErrStartShape == "ValueError: Initial state distribution must be of shape (n_states,)"
ErrStartSum == "ValueError: Initial state distribution must sum to one"
ErrTransType == "TypeError: Transition matrix must be a numpy.ndarray"
ErrTransShape == "ValueError: Transition matrix must be of shape (n_states, n_states)"
ErrTransSum == "ValueError: Transition probabilities out of each state must sum to one"
ErrUpper == "ValueError: Left-right transition matrix must be upper-triangular"
ErrLinear == "ValueError: Linear transition matrix must only consist of a diagonal and upper diagonal"
WarnZero == "Zero probabilities in ergodic transition matrix - these transition probabilities will not be learned"

\* numpy.sum of a vector of probabilities, as one fraction over the product of
\* the denominators.
RECURSIVE ProdDen(_)
ProdDen(v) == IF v = <<>> THEN 1 ELSE Head(v).den * ProdDen(Tail(v))

SumRat(v) ==
    Rat(SumSeq([i \in 1..Len(v) |-> v[i].num * (ProdDen(v) \div v[i].den)]), ProdDen(v))

\* numpy.isclose(p, 1) and numpy.isclose(p, 0) of a probability p.
CloseToOne(p) == IsClose(p.num, p.den, p.den)

CloseToZero(p) == IsClose(p.num, 0, p.den)

\* random_state.dirichlet(numpy.ones(m)): any vector of m positive multiples
\* of 1 / DirDen that sum to one.
Dirichlet(m) ==
    {[i \in 1..m |-> Rat(c[i], DirDen)] :
        c \in {d \in [1..m -> 1..DirDen] : SumSeq(d) = DirDen}}

\* Lines 21-29, uniform_start_probs: numpy.ones(n) / n.
UniformStartProbs(n) == Vec([i \in 1..n |-> Rat(1, n)])

\* Lines 31-39, random_start_probs: one Dirichlet sample of size n.
RandomStartProbs(n) == {Vec(d) : d \in Dirichlet(n)}

\* Lines 110-119, _ErgodicTopology.uniform_transitions: numpy.ones((n, n)) / n.
ErgodicUniform(n) == Mat([i \in 1..n |-> [j \in 1..n |-> Rat(1, n)]])

\* Lines 121-131, _ErgodicTopology.random_transitions: n Dirichlet samples of
\* size n.
ErgodicRow(n, i) == Dirichlet(n)

\* upper_divisors that counts down along the rows instead of down the columns
\* (without the transpose of line 170).
LeftRightUniform_NoTranspose(n) ==
    LET upper_ones(i, j) == IF j >= i THEN 1 ELSE 0
        upper_divisors(i, j) == IF j >= i THEN n - j + 1 ELSE 0
        lower_ones(i, j) == IF j < i THEN 1 ELSE 0
    IN  Mat([i \in 1..n |-> [j \in 1..n |->
            Rat(upper_ones(i, j), upper_divisors(i, j) + lower_ones(i, j))]])

\* Lines 160-172, _LeftRightTopology.uniform_transitions:
\* upper_ones / (upper_divisors + lower_ones).  Row i (from 1) of
\* upper_divisors is n - i + 1 on and above the diagonal.
LeftRightUniform(n) ==
    LET upper_ones(i, j) == IF j >= i THEN 1 ELSE 0
        upper_divisors(i, j) == IF j >= i THEN n - i + 1 ELSE 0
        lower_ones(i, j) == IF j < i THEN 1 ELSE 0
    IN  Mat([i \in 1..n |-> [j \in 1..n |->
            Rat(upper_ones(i, j), upper_divisors(i, j) + lower_ones(i, j))]])

\* A row of zeros with the vector d written from the first column on.
RowWith_FromFirst(n, i, d) ==
    [j \in 1..n |-> IF j <= Len(d) THEN d[j] ELSE Rat(0, 1)]

\* A row of zeros with the vector d written from column i on.
RowWith(n, i, d) ==
    [j \in 1..n |-> IF j >= i /\ j < i + Len(d) THEN d[j - i + 1] ELSE Rat(0, 1)]

\* Lines 174-187, _LeftRightTopology.random_transitions: row i (from 1) is a
\* Dirichlet sample of size n - i + 1 written into columns i..n of zeros.
LeftRightRow(n, i) == {RowWith(n, i, d) : d \in Dirichlet(n - i + 1)}

\* size = min(3, n - i).
LinearSize_Three(n, i) == Min(3, n - i + 1)

\* Lines 216-229, _LinearTopology.uniform_transitions: size = min(2, n - i)
\* with i from 0; row[i:i+size] = numpy.ones(size) / size.
LinearSize(n, i) == Min(2, n - i + 1)

LinearUniform(n) ==
    Mat([i \in 1..n |->
            RowWith(n, i, [j \in 1..LinearSize(n, i) |-> Rat(1, LinearSize(n, i))])])

\* Lines 231-245, _LinearTopology.random_transitions.
LinearRow(n, i) == {RowWith(n, i, d) : d \in Dirichlet(LinearSize(n, i))}

\* The loops of random_transitions: rows i..n of the matrix, each row drawn
\* on its own.
RandomRow(name, n, i) ==
    CASE name = "ergodic" -> ErgodicRow(n, i)
      [] name = "left-right" -> LeftRightRow(n, i)
      [] name = "linear" -> LinearRow(n, i)

RECURSIVE RandomRows(_, _, _)
RandomRows(name, n, i) ==
    IF i > n THEN {<<>>}
    ELSE {<<r>> \o rest : r \in RandomRow(name, n, i), rest \in RandomRows(name, n, i + 1)}

ErgodicRandom(n) == {Mat(m) : m \in RandomRows("ergodic", n, 1)}

LeftRightRandom(n) == {Mat(m) : m \in RandomRows("left-right", n, 1)}

LinearRandom(n) == {Mat(m) : m \in RandomRows("linear", n, 1)}

UniformTransitions(t) ==
    CASE t.name = "ergodic" -> ErgodicUniform(t.n_states)
      [] t.name = "left-right" -> LeftRightUniform(t.n_states)
      [] t.name = "linear" -> LinearUniform(t.n_states)

RandomTransitions(t) ==
    CASE t.name = "ergodic" -> ErgodicRandom(t.n_states)
      [] t.name = "left-right" -> LeftRightRandom(t.n_states)
      [] t.name = "linear" -> LinearRandom(t.n_states)

\* A call on a topology object and what it returned: the array handed in (if
\* any), the array handed back, the error raised and the warnings emitted.
TopologyCall(op, arg) ==
    [err |-> "", cls |-> "Topology", op |-> op, warns |-> {}, out |-> NotAnArray,
     arg |-> arg]

\* Lines 64-78, check_start_probs.
CheckStartProbs(t, initial) ==
    LET call == TopologyCall("check_start_probs", initial)
    IN  IF ~initial.ndarray THEN [call EXCEPT !.err = ErrStartType]
        ELSE IF initial.shape # <<t.n_states>> THEN [call EXCEPT !.err = ErrStartShape]
        ELSE IF ~CloseToOne(SumRat(initial.data)) THEN [call EXCEPT !.err = ErrStartSum]
        ELSE [call EXCEPT !.out = initial]

\* The same without the check of the sum.
BaseCheckTransitions_NoSum(t, transitions) ==
    IF ~transitions.ndarray THEN ErrTransType
    ELSE IF transitions.shape # <<t.n_states, t.n_states>> THEN ErrTransShape
    ELSE ""

\* Lines 80-94, _Topology.check_transitions: the error it raises, or "".
BaseCheckTransitions(t, transitions) ==
    IF ~transitions.ndarray THEN ErrTransType
    ELSE IF transitions.shape # <<t.n_states, t.n_states>> THEN ErrTransShape
    ELSE IF \E i \in 1..t.n_states : ~CloseToOne(SumRat(transitions.data[i]))
    THEN ErrTransSum
    ELSE ""

\* Line 198: numpy.allclose(transitions, numpy.triu(transitions)).
UpperTriangular(m) ==
    \A i \in 1..Len(m) : \A j \in 1..Len(m) : j < i => CloseToZero(m[i][j])

\* Line 256: numpy.allclose of transitions and its diagonal plus upper diagonal.
DiagonalAndUpper(m) ==
    \A i \in 1..Len(m) : \A j \in 1..Len(m) : (j # i /\ j # i + 1) => CloseToZero(m[i][j])

\* Lines 189-200, _LeftRightTopology.check_transitions: the error, or "".
LeftRightCheck(t, transitions) ==
    LET err == BaseCheckTransitions(t, transitions)
    IN  IF err # "" THEN err
        ELSE IF ~UpperTriangular(transitions.data) THEN ErrUpper
        ELSE ""

\* A check of the linear topology that looks at the diagonal and upper
\* diagonal before it looks at the lower triangle.
LinearCheck_DiagonalFirst(t, transitions) ==
    LET err == BaseCheckTransitions(t, transitions)
    IN  IF err # "" THEN err
        ELSE IF ~DiagonalAndUpper(transitions.data) THEN ErrLinear
        ELSE IF ~UpperTriangular(transitions.data) THEN ErrUpper
        ELSE ""

\* Lines 247-258, _LinearTopology.check_transitions, whose super() is
\* _LeftRightTopology.
LinearCheck(t, transitions) ==
    LET err == LeftRightCheck(t, transitions)
    IN  IF err # "" THEN err
        ELSE IF ~DiagonalAndUpper(transitions.data) THEN ErrLinear
        ELSE ""

\* The same that warns on every matrix.
ErgodicWarns_Always(m) == {WarnZero}

\* Lines 142-143, _ErgodicTopology.check_transitions: the warning when not
\* every entry is above zero.
ErgodicWarns(m) ==
    IF \A i \in 1..Len(m) : \A j \in 1..Len(m[i]) : m[i][j].num > 0 THEN {} ELSE {WarnZero}

\* check_transitions of the topology t (lines 133-144, 189-200, 247-258).
CheckTransitions(t, transitions) ==
    LET call == TopologyCall("check_transitions", transitions)
        err == CASE t.name = "ergodic" -> BaseCheckTransitions(t, transitions)
                 [] t.name = "left-right" -> LeftRightCheck(t, transitions)
                 [] t.name = "linear" -> LinearCheck(t, transitions)
    IN  IF err # "" THEN [call EXCEPT !.err = err]
        ELSE [call EXCEPT !.warns = IF t.name = "ergodic"
                                    THEN ErgodicWarns(transitions.data) ELSE {},
                          !.out = transitions]

\* ----------------------------------------------------- topologies: actions

notTopology == <<hmmVars, knnVars, job, slots, order, fileVars>>

\* Lines 17-19, __init__ of the class _topologies[name].
Topology_init(name, n_states) ==
    /\ Idle
    /\ topology' = [name |-> name, n_states |-> n_states]
    /\ ret' = [err |-> "", cls |-> "Topology", op |-> "init"]
    /\ UNCHANGED <<notTopology, hmm>>

TopologyExists == topology # NoTopology

Topology_uniform_start_probs ==
    /\ Idle /\ TopologyExists
    /\ ret' = [TopologyCall("uniform_start_probs", NotAnArray)
                  EXCEPT !.out = UniformStartProbs(topology.n_states)]
    /\ UNCHANGED <<notTopology, topology, hmm>>

Topology_random_start_probs ==
    /\ Idle /\ TopologyExists
    /\ \E initial \in RandomStartProbs(topology.n_states) :
          ret' = [TopologyCall("random_start_probs", NotAnArray) EXCEPT !.out = initial]
    /\ UNCHANGED <<notTopology, topology, hmm>>

Topology_uniform_transitions ==
    /\ Idle /\ TopologyExists
    /\ ret' = [TopologyCall("uniform_transitions", NotAnArray)
                  EXCEPT !.out = UniformTransitions(topology)]
    /\ UNCHANGED <<notTopology, topology, hmm>>

Topology_random_transitions ==
    /\ Idle /\ TopologyExists
    /\ \E transitions \in RandomTransitions(topology) :
          ret' = [TopologyCall("random_transitions", NotAnArray) EXCEPT !.out = transitions]
    /\ UNCHANGED <<notTopology, topology, hmm>>

Topology_check_start_probs(initial) ==
    /\ Idle /\ TopologyExists
    /\ ret' = CheckStartProbs(topology, initial)
    /\ UNCHANGED <<notTopology, topology, hmm>>

Topology_check_transitions(transitions) ==
    /\ Idle /\ TopologyExists
    /\ ret' = CheckTransitions(topology, transitions)
    /\ UNCHANGED <<notTopology, topology, hmm>>

\* ------------------------------------------ HMM variants: freeze, unfreeze, fit

\* Most parameters named in one call of freeze or unfreeze, unless the call
\* names all of them (the default argument).
MaxFreeze == 2

Variants == {"GaussianMixtureHMM", "MultinomialHMM"}

\* _defaults.hmmlearn_kwargs: the characters of 'init_params' and of 'params'
\* (gaussian_mixture.py lines 29-32, multinomial.py lines 27-30).
DefaultParams(variant) ==
    IF variant = "GaussianMixtureHMM"
    THEN {"s", "t", "m", "c", "w"}
    ELSE {"s", "t", "e"}

\* The emission parameters a set_state_* method sets:
\* set_state_means, set_state_covariances, set_state_weights
\* (gaussian_mixture.py lines 231-265), set_state_emissions (multinomial.py
\* lines 182-192).
StateParams(variant) ==
    IF variant = "GaussianMixtureHMM" THEN {"m", "c", "w"} ELSE {"e"}

NoHMM ==
    [variant |-> "", init_params |-> {}, params |-> {},
     skip_init_params |-> {}, skip_params |-> {},
     fitted |-> FALSE, model_init_params |-> {}, model_params |-> {}]

HmmExists == hmm.variant # ""

\* The outcome of a call on the variant: before is the frozen set the call
\* found.
HmmCall(op, arg) ==
    [err |-> "", cls |-> hmm.variant, op |-> op, arg |-> arg,
     before |-> hmm.skip_params]

\* __init__ with the default hmmlearn_kwargs (gaussian_mixture.py lines 71-98,
\* multinomial.py lines 42-59); the base class starts with nothing frozen and
\* nothing to skip at initialisation.
Variant_init(variant) ==
    /\ ~HmmExists
    /\ Idle
    /\ hmm' = [variant |-> variant,
               init_params |-> DefaultParams(variant),
               params |-> DefaultParams(variant),
               skip_init_params |-> {}, skip_params |-> {},
               fitted |-> FALSE, model_init_params |-> {}, model_params |-> {}]
    /\ ret' = [err |-> "", cls |-> variant, op |-> "init", arg |-> {},
               before |-> {}]
    /\ UNCHANGED <<notTopology, topology>>

\* set_state_means / set_state_covariances / set_state_weights /
\* set_state_emissions: self._skip_init_params |= set(param).
Variant_set_state(param) ==
    /\ HmmExists
    /\ Idle
    /\ param \in StateParams(hmm.variant)
    /\ hmm' = [hmm EXCEPT !.skip_init_params = @ \cup {param}]
    /\ ret' = HmmCall("set_state", {param})
    /\ UNCHANGED <<notTopology, topology>>

\* freeze of the base class HMM: the parameters named are added to
\* self._skip_params.
HMM_freeze(h, params) == [h EXCEPT !.skip_params = @ \cup params]

\* freeze: super().freeze(params)
\* (gaussian_mixture.py line 288, multinomial.py line 215).
Variant_freeze(params) ==
    /\ HmmExists
    /\ Idle
    /\ params \subseteq DefaultParams(hmm.variant)
    /\ hmm' = HMM_freeze(hmm, params)
    /\ ret' = HmmCall("freeze", params)
    /\ UNCHANGED <<notTopology, topology>>

\* unfreeze: super().freeze(params)
\* (gaussian_mixture.py line 309, multinomial.py line 236).
Variant_unfreeze(params) ==
    /\ HmmExists
    /\ Idle
    /\ params \subseteq DefaultParams(hmm.variant)
    /\ hmm' = HMM_freeze(hmm, params)
    /\ ret' = HmmCall("unfreeze", params)
    /\ UNCHANGED <<notTopology, topology>>

\* The hmmlearn_kwargs of the instance after fit has run
\*     kwargs = self.hmmlearn_kwargs
\*     kwargs['init_params'] = ''.join(set(kwargs['init_params']) - self._skip_init_params)
\*     kwargs['params'] = ''.join(set(kwargs['params']) - self._skip_params)
\* kwargs is the instance's own dict, so both entries are rewritten in place.
FitKwargs(h) ==
    [h EXCEPT !.init_params = @ \ h.skip_init_params,
              !.params = @ \ h.skip_params]

\* fit (gaussian_mixture.py lines 121-148, multinomial.py lines 81-106): the
\* hmmlearn model is built from the rewritten kwargs and trained.
Variant_fit ==
    /\ HmmExists
    /\ Idle
    /\ hmm' = [FitKwargs(hmm) EXCEPT
                  !.fitted = TRUE,
                  !.model_init_params = FitKwargs(hmm).init_params,
                  !.model_params = FitKwargs(hmm).params]
    /\ ret' = HmmCall("fit", {})
    /\ UNCHANGED <<notTopology, topology>>

\* ---------------------------------------------------------- specifications

vars == <<attrs, models_, encoder_, ret, job, slots, order,
          knnAttrs, k_, radius_, X_, y_, pkl, deserialized, h5, clf, topology, hmm>>

\* After HMMClassifier(): no model, no encoder.  No DTWKNN is constructed yet.
Init ==
    /\ knnAttrs = {}
    /\ k_ = 0
    /\ radius_ = 0
    /\ X_ = <<>>
    /\ y_ = <<>>
    /\ attrs = {"_val"}
    /\ models_ = <<>>
    /\ encoder_ = <<>>
    /\ ret = [err |-> "", cls |-> "", op |-> "init"]
    /\ job = NoJob
    /\ slots = <<>>
    /\ order = <<>>
    /\ pkl = NoFile
    /\ deserialized = NoInstance
    /\ h5 = NoFile
    /\ clf = NoInstance
    /\ topology = NoTopology
    /\ hmm = NoHMM

Fit == \E models \in FitInputs : HMMClassifier_fit(models)

Predict ==
    \/ \E X \in Inputs, prior \in StrPriors, ol \in BOOLEAN :
          HMMClassifier_predict(X, prior, TRUE, ol, FALSE, 1)
    \/ \E x \in Sequences_, prior \in VecPriors :
          HMMClassifier_predict(Single(x), prior, TRUE, TRUE, FALSE, 1)
    \/ \E X \in {Single(1), Batch(<<2, 1>>)}, ol \in BOOLEAN :
          HMMClassifier_predict(X, StrPrior("frequency"), FALSE, ol, FALSE, 1)

Evaluate ==
    \E X \in Batches : \E y \in [1..Len(X.seqs) -> HMMLabels] :
        HMMClassifier_evaluate(X, y, StrPrior("frequency"), FALSE, 1)

Next == Fit \/ Predict \/ Evaluate

Spec == Init /\ [][Next]_vars

\* Batch predict on worker processes, step by step.
ParBatches == {Batch(xs) : xs \in SeqsOf(Sequences_, 2, MaxParBatch)}

\* fit with collections that pass its checks.
FitModels == \E models \in SeqsOf(GMMHMMs, 1, MaxModels) : HMMClassifier_fit(models)

Dispatch ==
    \E X \in ParBatches, prior \in {StrPrior("frequency"), VecPrior(<<PriorDen, 0>>)},
       ol \in BOOLEAN, verbose \in BOOLEAN, n_jobs \in 2..MaxJobs :
        HMMClassifier_predict_dispatch(PredictCall(X, prior, TRUE, ol, verbose, n_jobs))

Worker == \E i \in 1..MaxJobs : HMMClassifier_chunk_worker(i)

NextPar == FitModels \/ Dispatch \/ Worker \/ HMMClassifier_predict_gather

SpecPar == Init /\ [][NextPar]_vars

\* ---------------------------------------------------- DTWKNN: input sets

\* The labels 'a' and 'b'.
La == <<97>>

Lb == <<98>>

KnnSequences == {1, 2, 3}

\* Reference sets: distinct sequences in increasing order, each with one of
\* three label patterns (a b a ..., b a b ..., a a a ...).
KnnRefs ==
    {X \in SeqsOf(KnnSequences, 1, MaxRefs) : \A i \in 1..(Len(X) - 1) : X[i] < X[i+1]}

LabelPatterns(n) ==
    { [i \in 1..n |-> IF i % 2 = 1 THEN La ELSE Lb],
      [i \in 1..n |-> IF i % 2 = 1 THEN Lb ELSE La],
      [i \in 1..n |-> La] }

KnnInputs == {Single(x) : x \in KnnSequences}
                 \cup {Batch(xs) : xs \in SeqsOf(KnnSequences, 1, MaxBatch)}

KnnInit == \E k \in 0..MaxK, radius \in 0..MaxRadius : DTWKNN_init(k, radius)

KnnFit ==
    \/ \E X \in KnnRefs : \E y \in LabelPatterns(Len(X)) : DTWKNN_fit(X, y)
    \/ DTWKNN_fit(<<1, 2>>, <<La>>)

KnnPredict == \E X \in KnnInputs : DTWKNN_predict(X, FALSE, 1)

KnnDispatch ==
    \E X \in KnnInputs \ {Single(x) : x \in KnnSequences}, n_jobs \in 2..MaxJobs :
        DTWKNN_predict_dispatch(KnnPredictCall(X, FALSE, n_jobs))

KnnWorker == \E i \in 1..MaxJobs : DTWKNN_parallel_predict(i)

NextKnn ==
    KnnInit \/ KnnFit \/ KnnPredict \/ KnnDispatch \/ KnnWorker \/ DTWKNN_predict_gather

SpecKnn == Init /\ [][NextKnn]_vars

\* ------------------------------------- specifications: life cycle, save/load

\* Both classifiers from construction on: fit (accepted and rejected),
\* predict, evaluate and save in any order.
LifeModels ==
    {<<>>, <<NotAModel>>} \cup {<<g>> : g \in {h \in GMMHMMs : h.label <= 2}}

LifeFit == \E models \in LifeModels : HMMClassifier_fit(models)

LifePredict ==
    \E X \in {Single(1), Batch(<<2, 1>>)}, n_jobs \in 1..2 :
        HMMClassifier_predict(X, StrPrior("frequency"), TRUE, TRUE, FALSE, n_jobs)

LifeEvaluate ==
    \E n_jobs \in 1..2 :
        HMMClassifier_evaluate(Batch(<<2, 1>>), <<1, 2>>, StrPrior("frequency"), FALSE, n_jobs)

LifeKnnFit ==
    \/ \E X \in {<<1>>, <<1, 3>>} : DTWKNN_fit(X, [i \in 1..Len(X) |-> IF i = 1 THEN La ELSE Lb])
    \/ DTWKNN_fit(<<1, 2>>, <<La>>)

LifeKnnPredict ==
    \E X \in {Single(1), Batch(<<3, 1>>)}, n_jobs \in 1..2 : DTWKNN_predict(X, FALSE, n_jobs)

LifeKnnEvaluate ==
    \E n_jobs \in 1..2 : DTWKNN_evaluate(Batch(<<3, 1>>), <<La, Lb>>, FALSE, n_jobs)

NextLife ==
    \/ LifeFit \/ LifePredict \/ LifeEvaluate \/ HMMClassifier_save
    \/ KnnInit \/ LifeKnnFit \/ LifeKnnPredict \/ LifeKnnEvaluate \/ DTWKNN_save

SpecLife == Init /\ [][NextLife]_vars

\* DTWKNN: construction, fit and predict on the calling process, with up to
\* MaxVoters references, equal ones among them, so that k = 3 neighbours can
\* hold a majority and distances can tie at the k-th neighbour.
VoterRefs ==
    {X \in SeqsOf(KnnSequences, 1, MaxVoters) : \A i \in 1..(Len(X) - 1) : X[i] <= X[i+1]}

VoterFit == \E X \in VoterRefs : \E y \in LabelPatterns(Len(X)) : DTWKNN_fit(X, y)

VoterPredict ==
    \E X \in {Single(x) : x \in KnnSequences} \cup {Batch(<<3, 1>>)} :
        DTWKNN_predict(X, FALSE, 1)

NextVoters == KnnInit \/ VoterFit \/ VoterPredict

SpecVoters == Init /\ [][NextVoters]_vars

\* HMMClassifier: fit, save and load in any order, the collections handed to
\* fit made of the models with labels 1 and 2 (two of them share label 2 and
\* differ in their training counts) in any order, repeated or not.
PersistModels == SeqsOf({g \in GMMHMMs : g.label <= 2}, 0, MaxModels)

PersistHmmFit == \E models \in PersistModels : HMMClassifier_fit(models)

NextPersist == PersistHmmFit \/ HMMClassifier_save \/ HMMClassifier_load

SpecPersist == Init /\ [][NextPersist]_vars

\* DTWKNN: construction, fit, save and load in any order, with reference sets
\* of one, two, MaxSaved - 1 and MaxSaved sequences, the i-th of them the
\* sequence i.
PersistSizes == {1, 2, MaxSaved - 1, MaxSaved}

Lab == <<97, 98>>

PersistFit ==
    \E n \in PersistSizes :
        \E y \in { [i \in 1..n |-> IF i % 2 = 1 THEN La ELSE Lb],
                   [i \in 1..n |-> IF i = 1 THEN Lab ELSE IF i % 3 = 0 THEN Lb ELSE La] } :
            DTWKNN_fit([i \in 1..n |-> i], y)

NextKnnPersist == KnnInit \/ PersistFit \/ DTWKNN_save \/ DTWKNN_load

SpecKnnPersist == Init /\ [][NextKnnPersist]_vars

\* evaluate of both classifiers on the calling process, after any fit; a run
\* uses one of the two classifiers.
EvalLabels == {La, Lb, Lab}

EvalHmmFit == ~KnnExists /\ Fit

EvalHmmEvaluate == ~KnnExists /\ Evaluate

EvalKnnInit == ~IsFitted(attrs) /\ KnnInit

EvalKnnFit == ~IsFitted(attrs) /\ KnnFit

EvalKnnEvaluate ==
    /\ ~IsFitted(attrs)
    /\ \E X \in {Batch(xs) : xs \in SeqsOf(KnnSequences, 1, MaxBatch)} :
          \E y \in [1..Len(X.seqs) -> EvalLabels] : DTWKNN_evaluate(X, y, FALSE, 1)

NextEvaluate ==
    EvalHmmFit \/ EvalHmmEvaluate \/ EvalKnnInit \/ EvalKnnFit \/ EvalKnnEvaluate

SpecEvaluate == Init /\ [][NextEvaluate]_vars

\* Topologies: construction, the generators, and the checks on what a
\* generator of any topology returned and on small arrays.
TopologyNames == {"ergodic", "left-right", "linear"}

Entries == {Rat(0, 1), Rat(1, 2), Rat(1, 1)}

Generated ==
    UNION {{UniformStartProbs(n), ErgodicUniform(n), LeftRightUniform(n), LinearUniform(n)}
             \cup RandomStartProbs(n) \cup ErgodicRandom(n)
             \cup LeftRightRandom(n) \cup LinearRandom(n) : n \in 1..MaxStates}

\* Arrays of two states with an entry below zero and an entry above one in a
\* row that sums to one.
SignedRows == {<<Rat(3, 2), Rat(-1, 2)>>, <<Rat(-1, 2), Rat(3, 2)>>}

SignedInputs ==
    {Vec(r) : r \in SignedRows}
      \cup {Mat(<<r, s>>) : r \in SignedRows, s \in SignedRows \cup {<<Rat(0, 1), Rat(1, 1)>>}}

CheckInputs ==
    {NotAnArray} \cup Generated \cup SignedInputs
      \cup {Vec(v) : v \in SeqsOf(Entries, 1, MaxCells)}
      \cup {Mat(m) : m \in UNION {SeqsOf(SeqsOf(Entries, c, c), 1, MaxCells \div c) :
                                     c \in 1..MaxCells}}

TopologyInit ==
    \E name \in TopologyNames, n_states \in 1..MaxStates : Topology_init(name, n_states)

\* The checks are made on a topology whose constructor or generator returned
\* last: a check leaves the topology as it is, so a check after a check
\* reaches no other state.
Unchecked == ret.op \notin {"check_start_probs", "check_transitions"}

CheckStart ==
    Unchecked /\ \E initial \in CheckInputs : Topology_check_start_probs(initial)

CheckTrans ==
    Unchecked /\ \E transitions \in CheckInputs : Topology_check_transitions(transitions)

NextTopology ==
    \/ TopologyInit
    \/ Topology_uniform_start_probs \/ Topology_random_start_probs
    \/ Topology_uniform_transitions \/ Topology_random_transitions
    \/ CheckStart \/ CheckTrans

SpecTopology == Init /\ [][NextTopology]_vars

\* predict of both classifiers with and without progress reporting, on the
\* calling process and on two workers; a run uses one of the two classifiers.
ProgressBatches == {Batch(xs) : xs \in SeqsOf({1, 2}, 2, MaxBatch)}

ProgressHmmFit == ~KnnExists /\ PersistHmmFit

ProgressHmmPredict ==
    /\ ~KnnExists
    /\ \E X \in {Single(1)} \cup ProgressBatches, verbose \in BOOLEAN :
          HMMClassifier_predict(X, StrPrior("frequency"), TRUE, TRUE, verbose, 1)

ProgressHmmDispatch ==
    /\ ~KnnExists
    /\ \E X \in ProgressBatches, verbose \in BOOLEAN :
          HMMClassifier_predict_dispatch(
              PredictCall(X, StrPrior("frequency"), TRUE, TRUE, verbose, 2))

ProgressHmmWorker == \E i \in 1..2 : HMMClassifier_chunk_worker(i)

ProgressKnnInit ==
    ~IsFitted(attrs) /\ \E k \in 1..MaxK : DTWKNN_init(k, MaxRadius)

ProgressKnnFit ==
    /\ ~IsFitted(attrs)
    /\ \E X \in {<<1, 2>>, <<1, 2, 3>>} :
          DTWKNN_fit(X, [i \in 1..Len(X) |-> IF i = 2 THEN Lb ELSE La])

ProgressKnnPredict ==
    \E X \in {Single(1)} \cup ProgressBatches, verbose \in BOOLEAN :
        DTWKNN_predict(X, verbose, 1)

ProgressKnnDispatch ==
    \E X \in ProgressBatches, verbose \in BOOLEAN :
        DTWKNN_predict_dispatch(KnnPredictCall(X, verbose, 2))

ProgressKnnWorker == \E i \in 1..2 : DTWKNN_parallel_predict(i)

NextProgress ==
    \/ ProgressHmmFit \/ ProgressHmmPredict \/ ProgressHmmDispatch \/ ProgressHmmWorker
    \/ HMMClassifier_predict_gather
    \/ ProgressKnnInit \/ ProgressKnnFit \/ ProgressKnnPredict \/ ProgressKnnDispatch
    \/ ProgressKnnWorker \/ DTWKNN_predict_gather

SpecProgress == Init /\ [][NextProgress]_vars

\* ------------------------------------- specification: one HMM variant instance

\* The parameter strings handed to freeze and unfreeze: up to MaxFreeze
\* characters, or all of them (the default argument).
FreezeInputs ==
    {p \in SUBSET DefaultParams(hmm.variant) :
        /\ p # {}
        /\ Cardinality(p) <= MaxFreeze \/ p = DefaultParams(hmm.variant)}

HmmInit == \E variant \in Variants : Variant_init(variant)

HmmSetState == \E param \in {"m", "c", "w", "e"} : Variant_set_state(param)

HmmFreeze == \E params \in FreezeInputs : Variant_freeze(params)

HmmUnfreeze == \E params \in FreezeInputs : Variant_unfreeze(params)

NextHmm == HmmInit \/ HmmSetState \/ HmmFreeze \/ HmmUnfreeze \/ Variant_fit

SpecHmm == Init /\ [][NextHmm]_vars

\* ----------------------- specification: every call of both classifiers, with
\* ----------------------- batches that hold a sequence that cannot be scored

\* Longest batch handed to predict / evaluate in this specification.
MaxCallBatch == 3

CallSequences == {1, Unscorable}

\* Collections handed to fit: rejected ones, one model, two models, and two
\* models that carry the same label.
CallModels ==
    {<<>>, <<NotAModel>>} \cup
    {ms \in SeqsOf(GMMHMMs, 1, MaxModels) : ms[1].label = 1 /\ ms[1].n_seqs_ = 1
                                             /\ ms[Len(ms)].label <= 2}

CallBatches == {Batch(xs) : xs \in SeqsOf(CallSequences, 1, MaxCallBatch)}

\* One classifier per run: the other one is never constructed or fitted.
CallsHmmFit ==
    /\ ~KnnExists
    /\ \E models \in CallModels : HMMClassifier_fit(models)

CallsHmmPredict ==
    /\ ~KnnExists
    /\ \E X \in {Single(1), Single(2), Single(Unscorable)} \cup CallBatches,
          n_jobs \in 1..MaxJobs :
          HMMClassifier_predict(X, StrPrior("frequency"), TRUE, TRUE, FALSE, n_jobs)

CallsHmmEvaluate ==
    /\ ~KnnExists
    /\ \E X \in CallBatches, n_jobs \in 1..MaxJobs :
          HMMClassifier_evaluate(X, [i \in 1..Len(X.seqs) |-> 1 + (i % 2)],
                                 StrPrior("frequency"), FALSE, n_jobs)

CallsHmmDispatch ==
    /\ ~KnnExists
    /\ \E X \in CallBatches, n_jobs \in 2..MaxJobs :
          \/ HMMClassifier_predict_dispatch(
                 PredictCall(X, StrPrior("frequency"), TRUE, TRUE, FALSE, n_jobs))
          \/ HMMClassifier_predict_dispatch(
                 EvaluateCall(X, [i \in 1..Len(X.seqs) |-> 1 + (i % 2)],
                              StrPrior("frequency"), FALSE, n_jobs))

CallsHmmWorker == \E i \in 1..MaxJobs : HMMClassifier_chunk_worker(i)

CallsHmmSave == ~KnnExists /\ HMMClassifier_save

CallsKnnInit == ~IsFitted(attrs) /\ KnnInit

CallsKnnFit == ~IsFitted(attrs) /\ LifeKnnFit

CallsKnnPredict ==
    \E X \in {Single(1), Single(2), Single(Unscorable)} \cup CallBatches,
       n_jobs \in 1..MaxJobs :
        DTWKNN_predict(X, FALSE, n_jobs)

CallsKnnEvaluate ==
    \E X \in CallBatches, n_jobs \in 1..MaxJobs :
        DTWKNN_evaluate(X, [i \in 1..Len(X.seqs) |-> IF i = 2 THEN Lb ELSE La],
                        FALSE, n_jobs)

CallsKnnDispatch ==
    \E X \in CallBatches, n_jobs \in 2..MaxJobs :
        \/ DTWKNN_predict_dispatch(KnnPredictCall(X, FALSE, n_jobs))
        \/ DTWKNN_predict_dispatch(
               KnnEvaluateCall(X, [i \in 1..Len(X.seqs) |-> IF i = 2 THEN Lb ELSE La],
                               FALSE, n_jobs))

CallsKnnWorker == \E i \in 1..MaxJobs : DTWKNN_parallel_predict(i)

NextCalls ==
    \/ CallsHmmFit \/ CallsHmmPredict \/ CallsHmmEvaluate \/ CallsHmmDispatch
    \/ CallsHmmWorker \/ HMMClassifier_predict_gather \/ CallsHmmSave
    \/ CallsKnnInit \/ CallsKnnFit \/ CallsKnnPredict \/ CallsKnnEvaluate
    \/ CallsKnnDispatch \/ CallsKnnWorker \/ DTWKNN_predict_gather \/ DTWKNN_save

SpecCalls == Init /\ [][NextCalls]_vars

\* ------------------------------------------------------------------ claims

HMMPredicted == ret.cls = "HMMClassifier" /\ ret.op = "predict"

DistinctLabels(models) ==
    \A i, j \in 1..Len(models) : i # j => models[i].label # models[j].label

\* The model of the fitted ensemble that carries label l.
ModelOf(l) == models_[CHOOSE i \in 1..Len(models_) : models_[i].label = l]

\* The 0-based index, in sorted label order, of the class whose score for x
\* is maximal, the lowest such index when several classes attain the maximum.
MapClass(x, prior) ==
    LET priors == GetPriors(models_, encoder_, prior)
        score(k) == ScoreOf(ModelOf(encoder_[k]), x, priors)
    IN  (CHOOSE k \in 1..Len(encoder_) :
            /\ \A j \in 1..Len(encoder_) : ~Greater(score(j), score(k))
            /\ \A j \in 1..(k-1) : Greater(score(k), score(j))) - 1

\* C1: after fit(models), the models in any order and with pairwise distinct
\* labels, a successful predict returns for every sequence the class with the
\* maximal score log P(O|model) + log prior, the lowest index in sorted label
\* order on a tie: its label with original_labels, else its index in sorted
\* label order.
C1_MapDecision ==
    (HMMPredicted /\ ret.err = "" /\ DistinctLabels(models_)) =>
        \A n \in 1..Len(ret.labels) :
            ret.labels[n] =
                IF ret.original_labels
                THEN encoder_[MapClass(ret.X.seqs[n], ret.prior) + 1]
                ELSE MapClass(ret.X.seqs[n], ret.prior)

\* C5: fit with an empty collection fails with 'The classifier must be fitted
\* with at least one HMM', fit with a collection that holds an element that is
\* no model fails with 'Expected all models to be GMMHMM objects', and a fit
\* that fails leaves the stored models and the label encoding as they were.
C5_RejectedFit ==
    [][(ret'.cls = "HMMClassifier" /\ ret'.op = "fit") =>
         /\ (ret'.models = <<>> => ret'.err = ErrFitEmpty)
         /\ ((\E i \in 1..Len(ret'.models) : ~ret'.models[i].isGMMHMM)
                => ret'.err = ErrFitType)
         /\ (ret'.err # "" =>
                (attrs' = attrs /\ models_' = models_ /\ encoder_' = encoder_))]_vars

\* C5 witness: a fitted classifier has rejected an empty collection and still
\* holds its ensemble.
C5_Witness ==
    /\ ret.cls = "HMMClassifier" /\ ret.op = "fit" /\ ret.err = ErrFitEmpty
    /\ IsFitted(attrs) /\ Len(models_) = MaxModels

\* C6: in every fitted state the ensemble is non-empty, no two models share a
\* label and the label encoding has exactly one index per model.
C6_UniqueLabels ==
    IsFitted(attrs) =>
        /\ Len(models_) > 0
        /\ DistinctLabels(models_)
        /\ Len(encoder_) = Len(models_)

\* a = b for two rationals.
SameRatio(a, b) == a.num * b.den = b.num * a.den

\* The prior the claim gives the i-th model of the fitted ensemble.
ClaimedPrior(i, prior) ==
    IF prior.kind = "str" /\ prior.name = "frequency"
    THEN [den |-> SumSeq([j \in 1..Len(models_) |-> models_[j].n_seqs_]),
          num |-> models_[i].n_seqs_]
    ELSE IF prior.kind = "str"
    THEN [den |-> Len(models_), num |-> 1]
    ELSE [den |-> PriorDen,
          num |-> prior.vec[Cardinality({l \in Range(encoder_) : l < models_[i].label}) + 1]]

\* C7: the prior an accepted predict uses for the model with label c is
\* n_seqs(c) / sum of n_seqs for 'frequency', 1/M for 'uniform', and the entry
\* at the index of c in sorted label order for an explicit vector; the priors
\* over the classes of the ensemble are non-negative and sum to 1.
C7_Priors ==
    (HMMPredicted /\ ret.err = "") =>
        LET used == GetPriors(models_, encoder_, ret.prior)
            classes == DOMAIN used
            den == used[models_[1].label].den
        IN  /\ \A i \in 1..Len(models_) :
                  SameRatio(used[models_[i].label], ClaimedPrior(i, ret.prior))
            /\ \A l \in classes : used[l].num >= 0 /\ used[l].den = den
            /\ SumSeq([k \in 1..Len(encoder_) |-> used[encoder_[k]].num]) = den

\* An explicit vector the claim has rejected, or a string that names no prior.
BadPrior(prior) ==
    \/ /\ prior.kind = "vec"
       /\ \/ Len(prior.vec) # Len(models_)
          \/ \E i \in 1..Len(prior.vec) : prior.vec[i] < 0
          \/ SumSeq(prior.vec) # PriorDen
    \/ /\ prior.kind = "str"
       /\ prior.name \notin {"frequency", "uniform"}

\* C8: predict on a fitted classifier with an explicit prior of the wrong
\* length, with a negative entry or not summing to 1, or with a string other
\* than 'frequency' and 'uniform', fails at that call with the error of the
\* prior's check, before any model has scored a sequence, and returns neither
\* labels nor scores.
C8_PriorRejected ==
    (HMMPredicted /\ IsFitted(attrs) /\ BadPrior(ret.prior)) =>
        /\ ret.err \in {ErrPriorLen, ErrPriorRange, ErrPriorSum, ErrPriorName}
        /\ ret.scored = 0
        /\ ret.labels = <<>>
        /\ ret.scores = <<>>

\* C8 witness: a vector of the right length with entries in [0, 1] has been
\* rejected for its sum.
C8_Witness ==
    /\ HMMPredicted /\ IsFitted(attrs) /\ ret.prior.kind = "vec"
    /\ Len(ret.prior.vec) = Len(models_) /\ Len(models_) = MaxModels
    /\ ret.err = ErrPriorSum

\* C9: a batch predict that ran on p > 1 workers returns the labels and the
\* score matrix (row i for sequence i) that predict with n_jobs = 1 returns for
\* the same batch, whatever the order in which the workers finished.
C9_ParallelEqualsSerial ==
    (HMMPredicted /\ ret.workers > 1) =>
        LET serial == PredictSerial(attrs, models_, encoder_, [ret EXCEPT !.n_jobs = 1])
        IN  /\ serial.workers = 1
            /\ ret.err = serial.err
            /\ ret.labels = serial.labels
            /\ ret.scores = serial.scores
            /\ ret.err = "" => /\ Len(ret.scores) = Len(ret.X.seqs)
                               /\ \A n \in 1..Len(ret.scores) :
                                     Len(ret.scores[n]) = Len(models_)

\* C9 witness: a batch of three sequences has been predicted by two workers,
\* the second chunk finished before the first.
C9_Witness ==
    /\ HMMPredicted /\ ret.err = "" /\ ret.workers = 2
    /\ Len(ret.X.seqs) = 3 /\ ret.X.seqs[1] # ret.X.seqs[3]
    /\ ret.completion = <<2, 1>>

\* The labels a classifier restored from a file has for one query, next to
\* those of the classifier that was saved.
KnnQueryOutcomes(attributes, refs, labels, k, radius, x) ==
    {out.labels : out \in KnnPredictSerial(attributes, refs, labels, k, radius,
                                           KnnPredictCall(Single(x), FALSE, 1))}

\* C2: load directly after a successful save of a fitted DTWKNN M gives a
\* classifier with M's k and radius and M's reference sequences and labels,
\* index by index, for every number of references; and its prediction for a
\* query equals M's whenever M's prediction involves no tie-break.
C2_KnnRoundTrip ==
    [][(ret.cls = "DTWKNN" /\ ret.op = "save" /\ ret.err = ""
        /\ ret'.cls = "DTWKNN" /\ ret'.op = "load")
       => /\ ret'.err = ""
          /\ clf'.k_ = k_
          /\ clf'.radius_ = radius_
          /\ Len(clf'.X_) = Len(X_)
          /\ Len(clf'.y_) = Len(y_)
          /\ \A i \in 1..Len(X_) : clf'.X_[i] = X_[i] /\ clf'.y_[i] = y_[i]
          /\ \A x \in 1..MaxSaved :
                LET mine == KnnQueryOutcomes(knnAttrs, X_, y_, k_, radius_, x)
                IN  Cardinality(mine) = 1
                    => KnnQueryOutcomes(clf'.attrs, clf'.X_, clf'.y_, clf'.k_,
                                        clf'.radius_, x) = mine]_vars

NoResult(r) ==
    /\ r.op = "predict" => r.labels = <<>>
    /\ (r.op = "predict" /\ r.cls = "HMMClassifier") => r.scores = <<>>
    /\ r.op = "evaluate" => r.cm = <<>> /\ r.predictions = <<>>

\* C4: while no fit has succeeded on a classifier, its predict, evaluate and
\* save fail with the not-fitted error, return nothing and write no file; a
\* classifier that is fitted stays fitted through every later fit (accepted
\* or rejected), predict, evaluate and save, and its predict never fails
\* with the not-fitted error.
C4_Lifecycle ==
    /\ []((~IsFitted(attrs) /\ ret.cls = "HMMClassifier"
              /\ ret.op \in {"predict", "evaluate", "save"})
            => (ret.err = NotFittedHMM /\ NoResult(ret) /\ ~pkl.exists))
    /\ []((KnnExists /\ ~KnnFitted(knnAttrs) /\ ret.cls = "DTWKNN"
              /\ ret.op \in {"predict", "evaluate", "save"})
            => (/\ ret.err = (IF ret.op = "save" THEN NotFittedSave ELSE NotFittedPredict)
                /\ NoResult(ret)
                /\ ~h5.exists))
    /\ [][IsFitted(attrs) => IsFitted(attrs')]_vars
    /\ [][KnnFitted(knnAttrs) => KnnFitted(knnAttrs')]_vars
    /\ []((IsFitted(attrs) /\ ret.cls = "HMMClassifier"
              /\ ret.op \in {"predict", "evaluate", "save"})
            => ret.err # NotFittedHMM)
    /\ []((KnnFitted(knnAttrs) /\ ret.cls = "DTWKNN"
              /\ ret.op \in {"predict", "evaluate", "save"})
            => ret.err \notin {NotFittedPredict, NotFittedSave})

\* Both classifiers are fitted, and the last call was a fit that was rejected.
C4_Witness ==
    /\ IsFitted(attrs)
    /\ KnnFitted(knnAttrs)
    /\ ret.op = "fit"
    /\ ret.err # ""

\* A batch predict of the DTWKNN has returned.
KnnPredicted == ret.cls = "DTWKNN" /\ ret.op = "predict"

\* The outcomes predict with n_jobs = 1 can have for the batch of the call
\* that returned.
SerialOutcomes ==
    KnnPredictSerial(knnAttrs, X_, y_, k_, radius_,
                     KnnPredictCall(ret.X, ret.verbose, 1))

\* No query of the batch needs a tie-break: whichever k nearest references
\* are selected, one label is the most frequent among them.
NoTieBreak(queries) ==
    \A n \in 1..Len(queries) :
        Cardinality(QueryLabels(X_, y_, k_, radius_, queries[n])) = 1

\* C10 as stated: a batch predict on p > 1 workers returns the list of labels
\* that predict with n_jobs = 1 returns.
C10_ParallelEqualsSerial ==
    (KnnPredicted /\ ret.workers > 1) =>
        \A serial \in SerialOutcomes :
            serial.err = ret.err /\ serial.labels = ret.labels

\* C10, amended: a batch predict on p > 1 workers has an outcome that predict
\* with n_jobs = 1 can have (the same error, or a list with one label per
\* query in the order of the batch), and when no query needs a tie-break it
\* is the only outcome predict with n_jobs = 1 has.
C10_ParallelEqualsSerialNoTies ==
    (KnnPredicted /\ ret.workers > 1) =>
        /\ \E serial \in SerialOutcomes :
              serial.err = ret.err /\ serial.labels = ret.labels
        /\ ret.err = "" => Len(ret.labels) = Len(ret.X.seqs)
        /\ (k_ < Len(X_) /\ NoTieBreak(ret.X.seqs)) =>
              \A serial \in SerialOutcomes :
                  serial.err = "" /\ ret.err = "" /\ serial.labels = ret.labels

\* C10 witness: three workers predicted a batch of two queries with different
\* labels and no tie-break, the second chunk finished first.
C10_Witness ==
    /\ KnnPredicted /\ ret.err = "" /\ ret.workers = 3
    /\ Len(ret.X.seqs) = 2
    /\ NoTieBreak(ret.X.seqs)
    /\ ret.labels[1] # ret.labels[2]
    /\ ret.completion[1] = 2

\* The labels with the highest count among the labels of the references at
\* the positions S.
HighestCount(S) ==
    {l \in {y_[i] : i \in S} :
        \A m \in {y_[i] : i \in S} :
            Cardinality({i \in S : y_[i] = m}) <= Cardinality({i \in S : y_[i] = l})}

\* C11: every label predict returns for a query has the highest count among
\* the labels of the neighbours selected for it; every label with the highest
\* count is a possible result for those neighbours; and with k = 1 and
\* references labelled a, b, a the query equal to the b reference gets b.
C11_ModalLabel ==
    (KnnPredicted /\ ret.err = "") =>
        \A n \in 1..Len(ret.labels) :
            /\ ret.labels[n] \in HighestCount(ret.neighbors[n])
            /\ \A l \in HighestCount(ret.neighbors[n]) :
                  \E out \in KnnPredictSerial(knnAttrs, X_, y_, k_, radius_,
                                 KnnPredictCall(Single(ret.X.seqs[n]), FALSE, 1)) :
                      out.labels = <<l>> /\ out.neighbors = <<ret.neighbors[n]>>
            /\ (k_ = 1 /\ X_ = <<1, 2, 3>> /\ y_ = <<La, Lb, La>> /\ ret.X.seqs[n] = 2)
                  => ret.labels[n] = Lb

\* C11 witness: among three neighbours two labels occur, one of them twice,
\* and the query got that label.
C11_Witness ==
    /\ KnnPredicted /\ ret.err = "" /\ k_ = 3
    /\ Cardinality({y_[i] : i \in ret.neighbors[1]}) = 2
    /\ HighestCount(ret.neighbors[1]) = {ret.labels[1]}

\* C12: with 1 <= k <= N references predict succeeds, and the neighbours
\* tallied for a query are k distinct references, none of them farther from
\* the query than a reference that was not selected.
C12_SelectsK ==
    (KnnPredicted /\ KnnFitted(knnAttrs) /\ 1 <= k_ /\ k_ <= Len(X_)) =>
        /\ ret.err = ""
        /\ Len(ret.neighbors) = Len(ret.X.seqs)
        /\ \A n \in 1..Len(ret.neighbors) :
              /\ ret.neighbors[n] \subseteq 1..Len(X_)
              /\ Cardinality(ret.neighbors[n]) = k_
              /\ \A i \in ret.neighbors[n] : \A j \in (1..Len(X_)) \ ret.neighbors[n] :
                    Distance(ret.X.seqs[n], X_[i], radius_)
                        <= Distance(ret.X.seqs[n], X_[j], radius_)

Evaluated == ret.op = "evaluate" /\ ret.err = ""

\* The position of label l on the axes, 0 when it is on none.
AxisPos(axes, l) ==
    IF \E i \in 1..Len(axes) : axes[i] = l
    THEN CHOOSE i \in 1..Len(axes) : axes[i] = l
    ELSE 0

\* The matrix returned has n rows and n columns, its entry (i, j) is the
\* number of sequences s with truth[s] = i and predicted[s] = j, its entries
\* sum to the number of sequences, and the accuracy is the number of
\* sequences with truth[s] = predicted[s] over that sum.
IsConfusion(n, truth, predicted) ==
    LET N == Len(ret.X.seqs)
    IN  /\ Len(ret.cm) = n
        /\ \A i \in 1..n :
              /\ Len(ret.cm[i]) = n
              /\ \A j \in 1..n :
                    ret.cm[i][j] =
                        Cardinality({s \in 1..N : truth[s] = i /\ predicted[s] = j})
        /\ Total(ret.cm) = N
        /\ ret.accuracy.den = N
        /\ ret.accuracy.num = Cardinality({s \in 1..N : truth[s] = predicted[s]})

\* C13: a successful evaluate returns the confusion matrix of the batch (rows
\* true class, columns predicted class; for HMMClassifier M x M over the M
\* fitted classes in encoder order, for DTWKNN over the sorted labels that
\* occur), whose entries sum to the number of sequences, and the accuracy
\* trace / sum.
C13_Confusion ==
    Evaluated =>
        IF ret.cls = "HMMClassifier"
        THEN /\ Len(encoder_) = Len(models_)
             /\ IsConfusion(Len(models_),
                            [s \in 1..Len(ret.y) |-> AxisPos(encoder_, ret.y[s])],
                            [s \in 1..Len(ret.predictions) |-> ret.predictions[s] + 1])
        ELSE IsConfusion(Len(ret.axes),
                         [s \in 1..Len(ret.y) |-> AxisPos(ret.axes, ret.y[s])],
                         [s \in 1..Len(ret.predictions) |->
                             AxisPos(ret.axes, ret.predictions[s])])

\* What the predict call of ret returns when it is made with
\* original_labels=False and return_scores=True.
IndexCall ==
    PredictSerial(attrs, models_, encoder_,
                  PredictCall(ret.X, ret.prior, TRUE, FALSE, ret.verbose, ret.n_jobs))

\* C14: when predict with original_labels=False succeeds on an input, predict
\* succeeds on it whatever original_labels and return_scores are; it returns
\* one label per sequence, with original_labels the label at the position of
\* the index in the sorted label list, else the index; with return_scores
\* one row of M scores per sequence, the same rows whatever original_labels
\* is; and without return_scores no scores.
C14_Output ==
    (HMMPredicted /\ IndexCall.err = "") =>
        /\ ret.err = ""
        /\ Len(ret.labels) = Len(ret.X.seqs)
        /\ \A n \in 1..Len(ret.labels) :
              ret.labels[n] = IF ret.original_labels
                              THEN encoder_[IndexCall.labels[n] + 1]
                              ELSE IndexCall.labels[n]
        /\ IF ret.return_scores
           THEN /\ ret.scores = IndexCall.scores
                /\ Len(ret.scores) = Len(ret.X.seqs)
                /\ \A n \in 1..Len(ret.scores) : Len(ret.scores[n]) = Len(models_)
           ELSE ret.scores = <<>>

TopologyReturned(ops) == ret.cls = "Topology" /\ ret.op \in ops

\* The probability p equals num / den.
EqRat(p, num, den) == p.num * den = num * p.den

\* The entries of v are probabilities that sum to exactly one.
Distribution(v) ==
    /\ \A j \in 1..Len(v) : v[j].num >= 0 /\ v[j].den > 0
    /\ SumRat(v).num = SumRat(v).den

\* C15: what uniform_transitions and random_transitions of a topology return
\* is accepted by check_transitions of the same topology, and what
\* uniform_start_probs and random_start_probs return by check_start_probs.
C15_GeneratedAccepted ==
    /\ TopologyReturned({"uniform_transitions", "random_transitions"}) =>
          /\ CheckTransitions(topology, ret.out).err = ""
          /\ CheckTransitions(topology, ret.out).out = ret.out
    /\ TopologyReturned({"uniform_start_probs", "random_start_probs"}) =>
          /\ CheckStartProbs(topology, ret.out).err = ""
          /\ CheckStartProbs(topology, ret.out).out = ret.out

\* C15 witness: a linear topology of three states returned a random matrix.
C15_Witness ==
    /\ TopologyReturned({"random_transitions"})
    /\ topology = [name |-> "linear", n_states |-> 3]

\* C16: uniform_start_probs is 1/n for every state; uniform_transitions is
\* 1/n everywhere (ergodic); 1/(n-i) for j >= i and 0 for j < i, rows and
\* columns counted from 0 (left-right); 1/2 at columns i and i+1 of every
\* row but the last, 1 at the last column of the last row, 0 elsewhere
\* (linear).
C16_Uniform ==
    LET n == topology.n_states
        m == ret.out.data
    IN  /\ TopologyReturned({"uniform_start_probs"}) =>
              /\ ret.out.shape = <<n>>
              /\ \A i \in 1..n : EqRat(m[i], 1, n)
        /\ TopologyReturned({"uniform_transitions"}) =>
              /\ ret.out.shape = <<n, n>>
              /\ \A i \in 0..(n - 1) : \A j \in 0..(n - 1) :
                    LET p == m[i + 1][j + 1]
                    IN  CASE topology.name = "ergodic" -> EqRat(p, 1, n)
                          [] topology.name = "left-right" ->
                                IF j >= i THEN EqRat(p, 1, n - i) ELSE EqRat(p, 0, 1)
                          [] topology.name = "linear" ->
                                IF i < n - 1
                                THEN IF j = i \/ j = i + 1
                                     THEN EqRat(p, 1, 2) ELSE EqRat(p, 0, 1)
                                ELSE IF j = n - 1 THEN EqRat(p, 1, 1) ELSE EqRat(p, 0, 1)

\* C16 witness: a left-right topology of three states returned its uniform
\* matrix.
C16_Witness ==
    /\ TopologyReturned({"uniform_transitions"})
    /\ topology = [name |-> "left-right", n_states |-> 3]

\* C17: random_start_probs is a distribution over the n states; every row of
\* random_transitions is a distribution; a left-right matrix is exactly 0
\* below the diagonal; a linear matrix is exactly 0 outside the diagonal and
\* the first superdiagonal, and its last row is exactly 1 on the diagonal.
C17_Random ==
    LET n == topology.n_states
        m == ret.out.data
    IN  /\ TopologyReturned({"random_start_probs"}) =>
              ret.out.shape = <<n>> /\ Distribution(m)
        /\ TopologyReturned({"random_transitions"}) =>
              /\ ret.out.shape = <<n, n>>
              /\ \A i \in 1..n : Distribution(m[i])
              /\ topology.name \in {"left-right", "linear"} =>
                    \A i \in 1..n : \A j \in 1..(i - 1) : m[i][j].num = 0
              /\ topology.name = "linear" =>
                    /\ \A i \in 1..n : \A j \in (i + 2)..n : m[i][j].num = 0
                    /\ EqRat(m[n][n], 1, 1)

\* C17 witness: a left-right topology of three states returned a random
\* matrix whose first entry is not the uniform 1/3.
C17_Witness ==
    /\ TopologyReturned({"random_transitions"})
    /\ topology = [name |-> "left-right", n_states |-> 3]
    /\ ~EqRat(ret.out.data[1][1], 1, 3)

\* The matrix m is exactly 0 below the diagonal.
ZeroBelow(m) == \A i \in 1..Len(m) : \A j \in 1..(i - 1) : m[i][j].num = 0

\* The matrix m is exactly 0 right of the first superdiagonal.
ZeroBeyond(m) == \A i \in 1..Len(m) : \A j \in (i + 2)..Len(m[i]) : m[i][j].num = 0

\* C18: check_transitions of an array raises the shape error when the array
\* is not n x n, else the normalization error when a row does not sum to 1,
\* else a structure error when the topology is left-right or linear and an
\* entry below the diagonal is not 0, or the topology is linear and an entry
\* right of the first superdiagonal is not 0; check_start_probs raises the
\* shape error when the array is not of length n, else the normalization
\* error when it does not sum to 1; otherwise both return the array as it is.
C18_CheckErrors ==
    LET n == topology.n_states
        a == ret.arg
        sums == \A i \in 1..n : SumRat(a.data[i]).num = SumRat(a.data[i]).den
    IN  /\ (TopologyReturned({"check_transitions"}) /\ a.ndarray) =>
              IF a.shape # <<n, n>> THEN ret.err = ErrTransShape
              ELSE IF ~sums THEN ret.err = ErrTransSum
              ELSE IF topology.name \in {"left-right", "linear"} /\ ~ZeroBelow(a.data)
              THEN ret.err = ErrUpper
              ELSE IF topology.name = "linear" /\ ~ZeroBeyond(a.data)
              THEN ret.err = ErrLinear
              ELSE ret.err = "" /\ ret.out = a
        /\ (TopologyReturned({"check_start_probs"}) /\ a.ndarray) =>
              IF a.shape # <<n>> THEN ret.err = ErrStartShape
              ELSE IF SumRat(a.data).num # SumRat(a.data).den THEN ret.err = ErrStartSum
              ELSE ret.err = "" /\ ret.out = a

\* C18 witness: check_transitions of a linear topology raised the error for
\* an upper-triangular matrix of the right shape and sums.
C18_Witness == TopologyReturned({"check_transitions"}) /\ ret.err = ErrLinear

\* The array a is an n x n matrix of probabilities whose rows sum to one.
RowStochastic(a, n) ==
    /\ a.ndarray
    /\ a.shape = <<n, n>>
    /\ \A i \in 1..n : Distribution(a.data[i])

\* C19: check_transitions of an ergodic topology on an n x n row-stochastic
\* matrix raises no error and returns the matrix; it warns of zero
\* probabilities exactly when some entry of the matrix is zero.
C19_ErgodicWarning ==
    (/\ TopologyReturned({"check_transitions"})
     /\ topology.name = "ergodic"
     /\ RowStochastic(ret.arg, topology.n_states)) =>
        /\ ret.err = ""
        /\ ret.out = ret.arg
        /\ ret.warns \subseteq {WarnZero}
        /\ WarnZero \in ret.warns <=>
              \E i \in 1..topology.n_states : \E j \in 1..topology.n_states :
                  ret.arg.data[i][j].num = 0

\* C19 witness: the check of an ergodic topology warned about a row-stochastic
\* matrix.
C19_Witness ==
    /\ TopologyReturned({"check_transitions"})
    /\ topology.name = "ergodic"
    /\ RowStochastic(ret.arg, topology.n_states)
    /\ ret.warns = {WarnZero}

\* What predict returns: the labels, the scores and the error.
Result(r) == <<r.labels, IF r.cls = "HMMClassifier" THEN r.scores ELSE <<>>, r.err>>

\* The results the predict call of ret can have on the calling process when
\* verbose is the opposite of what it was.
OppositeVerbose ==
    IF ret.cls = "HMMClassifier"
    THEN {Result(PredictSerial(attrs, models_, encoder_,
                               [ret EXCEPT !.verbose = ~ret.verbose, !.n_jobs = 1]))}
    ELSE {Result(out) : out \in KnnPredictSerial(knnAttrs, X_, y_, k_, radius_,
                                    KnnPredictCall(ret.X, ~ret.verbose, 1))}

\* C20: a predict call of either classifier returns a result the same call
\* has with verbose the other way; and a batch predict that ran on more than
\* one worker with verbose set has emitted the warning about progress bars,
\* and none of its workers has rendered a progress display.
C20_Progress ==
    (ret.op = "predict" /\ ret.cls \in {"HMMClassifier", "DTWKNN"}) =>
        /\ (ret.workers > 0 \/ ret.err # "") => Result(ret) \in OppositeVerbose
        /\ (~ret.X.single /\ ret.workers > 1 /\ ret.verbose) =>
              /\ WarnProgress \in ret.warns
              /\ ret.bars \subseteq {Caller}

\* ---------------------------------------------------- claims: HMM variants

\* C21: no call of unfreeze on a GaussianMixtureHMM or MultinomialHMM adds a
\* parameter to the frozen set, the parameters it names are not frozen after
\* it, and unfreeze(p) right after freeze(p) leaves the frozen set as it was
\* before freeze(p).
C21_Unfreeze ==
    [][(ret'.cls \in Variants /\ ret'.op = "unfreeze") =>
          /\ hmm'.skip_params \subseteq hmm.skip_params
          /\ hmm'.skip_params \cap ret'.arg = {}
          /\ (ret.op = "freeze" /\ ret.arg = ret'.arg) =>
                 hmm'.skip_params = ret.before]_vars

\* C30: a fit of a GaussianMixtureHMM or MultinomialHMM leaves the characters
\* of the 'params' and 'init_params' entries of the instance's hmmlearn_kwargs
\* as they were before the call, and the model it trains updates exactly the
\* configured parameters that are not frozen at that fit.
C30_FitKeepsKwargs ==
    [][(ret'.cls \in Variants /\ ret'.op = "fit") =>
          /\ hmm'.params = hmm.params
          /\ hmm'.init_params = hmm.init_params
          /\ hmm'.model_params = DefaultParams(hmm.variant) \ hmm.skip_params]_vars

\* ------------------------------------------- claims: calls of the classifiers

\* What predict returns for X with the frequency prior on the calling thread,
\* from the fitted state given.
Answer(attributes, models, classes, X) ==
    Result(PredictSerial(attributes, models, classes,
                         PredictCall(X, StrPrior("frequency"), TRUE, TRUE, FALSE, 1)))

\* C22: what a predict call of the HMM ensemble returns (labels, scores,
\* error) is what predict returns for the same input and prior from the
\* fitted models on the calling thread, whatever n_jobs was and whichever
\* calls came before; and no step of a predict, evaluate or save call changes
\* what predict returns for a batch of two different sequences.
C22_Deterministic ==
    [][/\ (ret'.cls = "HMMClassifier" /\ ret'.op = "predict") =>
              Result(ret') =
                  Result(PredictSerial(attrs', models_', encoder_',
                             PredictCall(ret'.X, ret'.prior, ret'.return_scores,
                                         ret'.original_labels, FALSE, 1)))
       /\ ret'.op # "fit" =>
              Answer(attrs', models_', encoder_', Batch(<<2, 1>>)) =
                  Answer(attrs, models_, encoder_, Batch(<<2, 1>>))
      ]_vars

\* C22 witness: an ensemble of two models that has been saved returned the
\* labels and scores of a batch of three sequences from three workers that
\* finished in reverse order.
C22_Witness ==
    /\ HMMPredicted /\ ret.err = "" /\ Len(models_) = 2 /\ pkl.exists
    /\ ret.n_jobs = 3 /\ ret.completion = <<3, 2, 1>>
    /\ Len(ret.labels) = 3 /\ Len(ret.scores) = 3

\* C23: an instance of DTWKNN has k >= 1 and radius >= 1, a rejected
\* construction leaves no instance, and no step changes the k or the radius
\* of an instance or removes the instance.
C23_FixedAtConstruction ==
    [][/\ KnnExists' => (k_' >= 1 /\ radius_' >= 1)
       /\ (ret'.cls = "DTWKNN" /\ ret'.op = "init" /\ ret'.err # "") => ~KnnExists'
       /\ KnnExists => (KnnExists' /\ k_' = k_ /\ radius_' = radius_)
      ]_vars

\* C23 witness: an instance has been fitted and saved, and its evaluate has
\* returned a confusion matrix from more than one worker.
C23_Witness ==
    /\ KnnFitted(knnAttrs) /\ k_ = 1 /\ radius_ = MaxRadius /\ h5.exists
    /\ ret.cls = "DTWKNN" /\ ret.op = "evaluate" /\ ret.workers > 1 /\ ret.err = ""

\* C24: a predict of the HMM ensemble on a single sequence with n_jobs > 1
\* that passed the checks has emitted the multi-processing warning and ran on
\* the calling thread, whatever the number of frames; a predict on a batch
\* that returned used min(n_jobs, number of sequences) workers.
C24_SingleWarns ==
    (HMMPredicted /\ IsFitted(attrs) /\ ret.err \in {"", ErrScore}) =>
        /\ (ret.X.single /\ ret.n_jobs > 1) =>
               /\ WarnSingle \in ret.warns
               /\ ret.completion = <<>>
        /\ ~ret.X.single => ret.workers = Min(ret.n_jobs, Len(ret.X.seqs))

\* The number of sequences in the chunks before chunk i.
Before(chunks, i) == SumSeq([j \in 1..(i - 1) |-> Len(chunks[j])])

\* C25: the chunks of a batch predict that runs on workers are contiguous
\* runs of the batch, chunk i starting where chunk i-1 ended, that cover the
\* batch exactly and whose sizes differ by at most one; the HMM ensemble has
\* min(n_jobs, N) chunks, none of them empty; k-NN has n_jobs chunks, and a
\* worker with an empty chunk returns no label.
C25_Chunks ==
    job.active =>
        LET xs == job.call.X.seqs
            chunks == job.chunks
        IN  /\ \A i \in 1..Len(chunks) :
                   chunks[i] = SubSeq(xs, Before(chunks, i) + 1,
                                          Before(chunks, i) + Len(chunks[i]))
            /\ Before(chunks, Len(chunks) + 1) = Len(xs)
            /\ \A i, j \in 1..Len(chunks) : Len(chunks[i]) - Len(chunks[j]) <= 1
            /\ job.call.n_jobs > 1
            /\ Len(slots) = Len(chunks)
            /\ job.cls = "HMMClassifier" =>
                   /\ Len(chunks) = Min(job.call.n_jobs, Len(xs))
                   /\ \A i \in 1..Len(chunks) : chunks[i] # <<>>
            /\ job.cls = "DTWKNN" =>
                   /\ Len(chunks) = job.call.n_jobs
                   /\ \A i \in 1..Len(chunks) :
                          (slots[i].done /\ chunks[i] = <<>>) =>
                              (slots[i].rows = <<>> /\ slots[i].err = "")

\* C25 witness: k-NN has split a batch of two sequences for three workers,
\* and the worker of the empty third chunk is done.
C25_Witness ==
    /\ job.active /\ job.cls = "DTWKNN" /\ job.call.n_jobs = 3
    /\ Len(job.call.X.seqs) = 2 /\ job.chunks[3] = <<>> /\ slots[3].done

\* A predict call on a batch has returned in this step, from a fitted
\* classifier that passed the checks of predict, and a sequence of the batch
\* cannot be scored.
FailedBatch ==
    /\ ret' # ret
    /\ ret'.op = "predict"
    /\ ~ret'.X.single
    /\ ScoreFails(ret'.X.seqs)
    /\ \/ ret'.cls = "HMMClassifier" /\ PredictCheck(attrs, models_, ret'.prior) = ""
       \/ ret'.cls = "DTWKNN" /\ KnnFitted(knnAttrs)

\* C26: a batch predict (on the calling thread or on workers) with a
\* sequence whose scoring or distance computation fails returns that failure
\* and neither labels nor scores, whichever chunks were completed; no chunk
\* was run twice, no worker of the call is left running, and the fitted state
\* of both classifiers is as it was.
C26_FailureAborts ==
    [][FailedBatch =>
          /\ ret'.err # ""
          /\ (ret'.cls = "HMMClassifier" \/ k_ < Len(X_)) => ret'.err = ErrScore
          /\ ret'.err \in {ErrScore, ErrKth}
          /\ ret'.labels = <<>>
          /\ ret'.cls = "HMMClassifier" => ret'.scores = <<>>
          /\ \A i, j \in 1..Len(ret'.completion) :
                 i # j => ret'.completion[i] # ret'.completion[j]
          /\ ~job'.active
          /\ UNCHANGED <<hmmVars, knnVars>>
      ]_vars

\* C26 witness: two workers of the HMM ensemble finished, the first with the
\* scores of its chunk, the second with a failure, and predict returned the
\* failure.
C26_Witness ==
    /\ HMMPredicted /\ ret.err = ErrScore /\ ret.X.seqs = <<1, Unscorable>>
    /\ ret.completion = <<1, 2>> /\ ret.labels = <<>> /\ ret.scores = <<>>

\* C27: every step that is not a fit of the HMM ensemble leaves its models
\* (with their n_seqs_), its label encoding and its attributes as they were;
\* every step that is not a construction or a fit of the k-NN classifier
\* leaves its references, labels, k and radius as they were; and the
\* references and labels change only in a fit that succeeded.
C27_ReadOnly ==
    [][/\ ~(ret'.cls = "HMMClassifier" /\ ret'.op = "fit") =>
              UNCHANGED <<attrs, models_, encoder_>>
       /\ ~(ret'.cls = "DTWKNN" /\ ret'.op \in {"init", "fit"}) =>
              UNCHANGED <<knnAttrs, k_, radius_, X_, y_>>
       /\ <<X_, y_>>' # <<X_, y_>> =>
              (ret'.cls = "DTWKNN" /\ ret'.op = "fit" /\ ret'.err = "")
      ]_vars

\* C27 witness: an ensemble of two models has been saved, and its evaluate on
\* three workers has failed.
C27_Witness ==
    /\ ret.cls = "HMMClassifier" /\ ret.op = "evaluate" /\ ret.err = ErrScore
    /\ ret.n_jobs = 3 /\ Len(ret.completion) = 3 /\ Len(models_) = 2 /\ pkl.exists

\* ------------------------------------------------ claims: order of the checks

\* Some row of the matrix m does not sum to one.
BadRow(m) == \E i \in 1..Len(m) : SumRat(m[i]).num # SumRat(m[i]).den

\* C28: check_transitions reports the first violation in the order shape,
\* row sums, zero pattern: an array that is not n x n gets the shape error
\* whatever it holds; an n x n matrix with a row that does not sum to 1 gets
\* the normalization error, also when it breaks the zero pattern of the
\* topology; and a linear topology reports a non-zero entry below the
\* diagonal as the upper-triangular error of the left-right check.
C28_CheckOrder ==
    (TopologyReturned({"check_transitions"}) /\ ret.arg.ndarray) =>
        LET n == topology.n_states
            a == ret.arg
        IN  /\ a.shape # <<n, n>> => ret.err = ErrTransShape
            /\ (a.shape = <<n, n>> /\ BadRow(a.data)) => ret.err = ErrTransSum
            /\ (a.shape = <<n, n>> /\ ~BadRow(a.data) /\ ~ZeroBelow(a.data)
                   /\ topology.name = "linear") => ret.err = ErrUpper
            /\ ret.err # "" => ret.out = NotAnArray

\* C28 witness: the check of a linear topology raised the upper-triangular
\* error for a row-stochastic matrix with a non-zero entry below the diagonal,
\* an entry that is also outside the diagonal and the upper diagonal.
C28_Witness ==
    /\ TopologyReturned({"check_transitions"}) /\ topology.name = "linear"
    /\ ret.arg.ndarray /\ ret.arg.shape = <<topology.n_states, topology.n_states>>
    /\ ~BadRow(ret.arg.data) /\ ~ZeroBelow(ret.arg.data) /\ ~ZeroBeyond(ret.arg.data)
    /\ ret.err = ErrUpper

\* Every entry of the vector v is a probability: at least 0 and at most 1.
Probabilities(v) ==
    \A j \in 1..Len(v) : v[j].den > 0 /\ v[j].num >= 0 /\ v[j].num <= v[j].den

\* C29: a vector that check_start_probs accepted, and a matrix that
\* check_transitions of any topology accepted, has the shape of the topology,
\* sums (row sums) equal to 1, and entries that are all at least 0 and at
\* most 1.
C29_AcceptedAreProbabilities ==
    LET n == topology.n_states
    IN  /\ (TopologyReturned({"check_start_probs"}) /\ ret.err = "") =>
              /\ ret.out.shape = <<n>>
              /\ SumRat(ret.out.data).num = SumRat(ret.out.data).den
              /\ Probabilities(ret.out.data)
        /\ (TopologyReturned({"check_transitions"}) /\ ret.err = "") =>
              /\ ret.out.shape = <<n, n>>
              /\ ~BadRow(ret.out.data)
              /\ \A i \in 1..n : Probabilities(ret.out.data[i])

====
